---------------------------- MODULE Spec2Model ----------------------------
(***************************************************************************)
(* A model of django-evolution: the schema signature, the mutations'       *)
(* simulate and mutate steps (django_evolution/mutations.py), the Differ   *)
(* and the Hint Generator (django_evolution/diff.py, described in spec.md) *)
(* and the evolve command (management/commands/evolve.py).                 *)
(*                                                                         *)
(* A project signature is a Python dict of dicts.  A dict is modelled as a *)
(* TLA+ function whose DOMAIN is the set of its keys:                      *)
(*   proj_sig[app_label][model_name] =                                     *)
(*       [fields |-> dict field_name -> field_sig,                         *)
(*        meta   |-> [unique_together |-> sequence of sequences of names]] *)
(*   field_sig = dict attribute -> value, with the key "field_type".       *)
(* Python values are modelled by their repr: "True", "False", "None",      *)
(* "20", "size_column", ... so that values of different Python types can   *)
(* be compared, as Python compares them.                                   *)
(***************************************************************************)
EXTENDS Integers, Sequences, FiniteSets, TLC

(***************************************************************************)
(* Python dict operations                                                  *)
(***************************************************************************)
EmptyDict == [k \in {} |-> "None"]

\* d.get(k, dflt)
Get(d, k, dflt) == IF k \in DOMAIN d THEN d[k] ELSE dflt

\* d[k] = v
Put(d, k, v) == [x \in DOMAIN d \cup {k} |-> IF x = k THEN v ELSE d[x]]

\* d.pop(k, None) / del d[k] on a present key
Pop(d, k) == [x \in DOMAIN d \ {k} |-> d[x]]

\* d.update(e)
Update(d, e) == [x \in DOMAIN d \cup DOMAIN e |-> IF x \in DOMAIN e THEN e[x] ELSE d[x]]

\* Python truth value of a modelled value: False, None, 0 and '' are false.
Truthy(v) == v \notin {"False", "None", "0", ""}

\* django_evolution.signature.ATTRIBUTE_DEFAULTS (imported by mutations.py)
ATTRIBUTE_DEFAULTS ==
    [primary_key |-> "False", max_length |-> "None", unique |-> "False",
     null |-> "False", db_index |-> "False", db_column |-> "None",
     db_table |-> "None"]

ManyToManyField == "ManyToManyField"

(***************************************************************************)
(* Outcome of a simulate step: how the call ended and the signature it     *)
(* left behind (simulate works in place, so a raising call may already     *)
(* have changed the signature).                                            *)
(***************************************************************************)
Outcome(status, sig) == [status |-> status, sig |-> sig]

\* proj_sig with model_sig stored at proj_sig[app_label][model_name]
WithModel(proj_sig, app_label, model_name, model_sig) ==
    [proj_sig EXCEPT ![app_label] = Put(proj_sig[app_label], model_name, model_sig)]

\* proj_sig[app_label][model_name] can be looked up
HasModel(proj_sig, app_label, model_name) ==
    /\ app_label \in DOMAIN proj_sig
    /\ model_name \in DOMAIN proj_sig[app_label]

(***************************************************************************)
(* The mutations (constructors: the data each instance carries)            *)
(***************************************************************************)
SQLMutation(tag, sql, update_func) ==
    [variant |-> "SQLMutation", tag |-> tag, sql |-> sql, update_func |-> update_func]

DeleteField(model_name, field_name) ==
    [variant |-> "DeleteField", model_name |-> model_name, field_name |-> field_name]

AddField(model_name, field_name, field_type, initial, field_attrs) ==
    [variant |-> "AddField", model_name |-> model_name, field_name |-> field_name,
     field_type |-> field_type, initial |-> initial, field_attrs |-> field_attrs]

RenameField(model_name, old_field_name, new_field_name, db_column, db_table) ==
    [variant |-> "RenameField", model_name |-> model_name,
     old_field_name |-> old_field_name, new_field_name |-> new_field_name,
     db_column |-> db_column, db_table |-> db_table]

ChangeField(model_name, field_name, initial, field_attrs) ==
    [variant |-> "ChangeField", model_name |-> model_name, field_name |-> field_name,
     initial |-> initial, field_attrs |-> field_attrs]

DeleteModel(model_name) ==
    [variant |-> "DeleteModel", model_name |-> model_name]

DeleteApplication == [variant |-> "DeleteApplication"]

(***************************************************************************)
(* DeleteField.simulate                                                    *)
(***************************************************************************)
\* a variant that leaves the unique_together tuples as they are
StripUniqueTogetherNowhere(unique_together, field_name) == unique_together

\* the unique_together tuples with field_name taken out of each of them
StripUniqueTogether(unique_together, field_name) ==
    [i \in 1..Len(unique_together) |->
        SelectSeq(unique_together[i], LAMBDA f : f # field_name)]

\* a variant that takes the field's kind for the primary-key flag
IsPrimaryKeyByType(field_sig) == field_sig["field_type"] = "AutoField"

\* the primary-key test of DeleteField.simulate
IsPrimaryKey(field_sig) == Truthy(Get(field_sig, "primary_key", "False"))

DeleteFieldSimulate(m, app_label, proj_sig) ==
    IF ~HasModel(proj_sig, app_label, m.model_name)
    THEN Outcome("KeyError", proj_sig)
    ELSE
      LET model_sig == proj_sig[app_label][m.model_name]
          stripped  == [model_sig EXCEPT !.meta.unique_together =
                           StripUniqueTogether(@, m.field_name)]
          sig1      == WithModel(proj_sig, app_label, m.model_name, stripped)
      IN  IF m.field_name \notin DOMAIN model_sig.fields
          THEN Outcome("KeyError", sig1)
          ELSE IF IsPrimaryKey(model_sig.fields[m.field_name])
          THEN Outcome("SimulationFailure", sig1)
          ELSE Outcome("ok",
                   WithModel(proj_sig, app_label, m.model_name,
                       [stripped EXCEPT !.fields = Pop(@, m.field_name)]))

(***************************************************************************)
(* AddField.simulate                                                       *)
(***************************************************************************)
\* a variant that does not look at the initial value
AddNeedsInitialWhateverGiven(m) ==
    /\ m.field_type # ManyToManyField
    /\ ~Truthy(Get(m.field_attrs, "null", ATTRIBUTE_DEFAULTS["null"]))

\* the "needs an initial value" test of AddField.simulate
AddNeedsInitial(m) ==
    /\ m.field_type # ManyToManyField
    /\ ~Truthy(Get(m.field_attrs, "null", ATTRIBUTE_DEFAULTS["null"]))
    /\ m.initial = "None"

\* a variant that records the field's kind alone
AddedFieldSigBare(m) == [field_type |-> m.field_type]

\* the signature the added field gets: its kind and the given attributes
AddedFieldSig(m) == Update([field_type |-> m.field_type], m.field_attrs)

\* a variant that does not look for a field of the same name
AddFieldSimulateOverwrites(m, app_label, proj_sig) ==
    IF ~HasModel(proj_sig, app_label, m.model_name)
    THEN Outcome("KeyError", proj_sig)
    ELSE
      LET model_sig == proj_sig[app_label][m.model_name]
      IN  IF AddNeedsInitial(m)
          THEN Outcome("SimulationFailure", proj_sig)
          ELSE Outcome("ok",
                   WithModel(proj_sig, app_label, m.model_name,
                       [model_sig EXCEPT !.fields =
                           Put(@, m.field_name, AddedFieldSig(m))]))

AddFieldSimulate(m, app_label, proj_sig) ==
    IF ~HasModel(proj_sig, app_label, m.model_name)
    THEN Outcome("KeyError", proj_sig)
    ELSE
      LET model_sig == proj_sig[app_label][m.model_name]
      IN  IF m.field_name \in DOMAIN model_sig.fields
          THEN Outcome("SimulationFailure", proj_sig)
          ELSE IF AddNeedsInitial(m)
          THEN Outcome("SimulationFailure", proj_sig)
          ELSE Outcome("ok",
                   WithModel(proj_sig, app_label, m.model_name,
                       [model_sig EXCEPT !.fields =
                           Put(@, m.field_name, AddedFieldSig(m))]))

(***************************************************************************)
(* RenameField.simulate                                                    *)
(***************************************************************************)
\* the field signature with its table or column override set or cleared
RenamedFieldSig(m, field_sig) ==
    IF field_sig["field_type"] = ManyToManyField
    THEN IF Truthy(m.db_table)
         THEN Put(field_sig, "db_table", m.db_table)
         ELSE Pop(field_sig, "db_table")
    ELSE IF Truthy(m.db_column)
         THEN Put(field_sig, "db_column", m.db_column)
         ELSE Pop(field_sig, "db_column")

RenameFieldSimulate(m, app_label, proj_sig) ==
    IF ~HasModel(proj_sig, app_label, m.model_name)
    THEN Outcome("KeyError", proj_sig)
    ELSE
      LET model_sig == proj_sig[app_label][m.model_name]
      IN  IF m.old_field_name \notin DOMAIN model_sig.fields
          THEN Outcome("KeyError", proj_sig)
          ELSE Outcome("ok",
                   WithModel(proj_sig, app_label, m.model_name,
                       [model_sig EXCEPT !.fields =
                           Put(Pop(@, m.old_field_name), m.new_field_name,
                               RenamedFieldSig(m, model_sig.fields[m.old_field_name]))]))

(***************************************************************************)
(* ChangeField.simulate                                                    *)
(***************************************************************************)
\* a variant that asks for no initial value
ChangeNeedsInitialNever(m, field_sig) == FALSE

\* the "needs an initial value" test of ChangeField.simulate
ChangeNeedsInitial(m, field_sig) ==
    /\ "null" \in DOMAIN m.field_attrs
    /\ field_sig["field_type"] # ManyToManyField
    /\ ~Truthy(m.field_attrs["null"])
    /\ m.initial = "None"

ChangeFieldSimulate(m, app_label, proj_sig) ==
    IF ~HasModel(proj_sig, app_label, m.model_name)
    THEN Outcome("KeyError", proj_sig)
    ELSE
      LET model_sig == proj_sig[app_label][m.model_name]
      IN  IF m.field_name \notin DOMAIN model_sig.fields
          THEN Outcome("KeyError", proj_sig)
          ELSE
            LET field_sig == Update(model_sig.fields[m.field_name], m.field_attrs)
                sig1 == WithModel(proj_sig, app_label, m.model_name,
                            [model_sig EXCEPT !.fields[m.field_name] = field_sig])
            IN  IF ChangeNeedsInitial(m, field_sig)
                THEN Outcome("SimulationFailure", sig1)
                ELSE Outcome("ok", sig1)

(***************************************************************************)
(* DeleteModel.simulate                                                    *)
(***************************************************************************)
DeleteModelSimulate(m, app_label, proj_sig) ==
    IF ~HasModel(proj_sig, app_label, m.model_name)
    THEN Outcome("KeyError", proj_sig)
    ELSE Outcome("ok", [proj_sig EXCEPT ![app_label] = Pop(@, m.model_name)])

(***************************************************************************)
(* DeleteApplication.simulate and MonoBaseMutation.is_mutable              *)
(***************************************************************************)
\* is_multi_db(): whether the installed Django routes models to several
\* databases.  The evolve command of this repository passes no database.
is_multi_db == FALSE

\* router.db_for_write(model): every model is written to "default"
db_for_write(app_label, model_name) == "default"

\* MonoBaseMutation.is_mutable
IsMutable(app_label, model_name, database) ==
    IF is_multi_db
    THEN db_for_write(app_label, model_name) = database
    ELSE TRUE

\* The body of the loop is "del app_sig[self.model_name]", and a
\* DeleteApplication has no attribute model_name: the first model that is
\* mutable ends the call with an AttributeError.
DeleteApplicationSimulate(m, app_label, proj_sig, database) ==
    IF ~Truthy(database)
    THEN Outcome("ok", proj_sig)
    ELSE IF app_label \notin DOMAIN proj_sig
    THEN Outcome("KeyError", proj_sig)
    ELSE IF \E model_name \in DOMAIN proj_sig[app_label] :
                IsMutable(app_label, model_name, database)
    THEN Outcome("AttributeError", proj_sig)
    ELSE Outcome("ok", proj_sig)

(***************************************************************************)
(* SQLMutation.simulate                                                    *)
(***************************************************************************)
\* An update function is modelled by the model it removes from the
\* application's signature: def f(app_label, proj_sig):
\*     proj_sig[app_label].pop(<drops>, None)
UpdateFunc(model_name) == [callable |-> TRUE, drops |-> model_name]

\* update_func=None, the default of SQLMutation.__init__
NoUpdateFunc == [callable |-> FALSE, drops |-> "None"]

\* a variant that takes whatever was given for a function
CallableWhateverGiven(update_func) == TRUE

\* callable(self.update_func)
Callable(update_func) == update_func.callable

ApplyUpdateFunc(update_func, app_label, proj_sig) ==
    IF app_label \notin DOMAIN proj_sig
    THEN Outcome("KeyError", proj_sig)
    ELSE Outcome("ok", [proj_sig EXCEPT ![app_label] = Pop(@, update_func.drops)])

SQLMutationSimulate(m, app_label, proj_sig) ==
    IF Callable(m.update_func)
    THEN ApplyUpdateFunc(m.update_func, app_label, proj_sig)
    ELSE Outcome("CannotSimulate", proj_sig)

(***************************************************************************)
(* mutation.simulate(app_label, proj_sig, database): dynamic dispatch      *)
(***************************************************************************)
Simulate(m, app_label, proj_sig, database) ==
    CASE m.variant = "SQLMutation"       -> SQLMutationSimulate(m, app_label, proj_sig)
      [] m.variant = "DeleteField"       -> DeleteFieldSimulate(m, app_label, proj_sig)
      [] m.variant = "AddField"          -> AddFieldSimulate(m, app_label, proj_sig)
      [] m.variant = "RenameField"       -> RenameFieldSimulate(m, app_label, proj_sig)
      [] m.variant = "ChangeField"       -> ChangeFieldSimulate(m, app_label, proj_sig)
      [] m.variant = "DeleteModel"       -> DeleteModelSimulate(m, app_label, proj_sig)
      [] m.variant = "DeleteApplication" ->
             DeleteApplicationSimulate(m, app_label, proj_sig, database)

(***************************************************************************)
(* The Differ (django_evolution.diff.Diff), as spec.md sections 3 and 4.2  *)
(* describe it, and the one place of the tests that shows its result.      *)
(***************************************************************************)
\* Every name the model uses, in lexical order: the stable iteration order
\* of the Differ's and the Hint Generator's output.
NameOrder ==
    <<"Anchor", "TestModel", "age", "full_name", "id", "name", "other", "ref",
      "tests", "value">>

\* the names of S in lexical order
Sorted(S) == SelectSeq(NameOrder, LAMBDA n : n \in S)

RECURSIVE Concat(_)
\* the concatenation of a sequence of sequences
Concat(ss) == IF ss = <<>> THEN <<>> ELSE Head(ss) \o Concat(Tail(ss))

\* a variant that knows no declared default
DefaultOfNothing(attr) == "None"

\* an attribute's declared default, None when it declares none
DefaultOf(attr) == Get(ATTRIBUTE_DEFAULTS, attr, "None")

\* the attribute's value in a field signature, its default when absent
AttrValue(field_sig, attr) == Get(field_sig, attr, DefaultOf(attr))

\* the attributes whose values differ between two signatures of a field
ChangedAttrs(old_field, new_field) ==
    {a \in DOMAIN old_field \cup DOMAIN new_field :
        AttrValue(old_field, a) # AttrValue(new_field, a)}

\* unique_together as a set of tuples, empty tuples ignored
UniqueTogetherSet(meta) ==
    {meta.unique_together[i] : i \in 1..Len(meta.unique_together)} \ {<<>>}

\* the metadata attributes that differ
ChangedMeta(old_meta, new_meta) ==
    IF UniqueTogetherSet(old_meta) # UniqueTogetherSet(new_meta)
    THEN {"unique_together"}
    ELSE {}

\* the sub-diff of a model present in both signatures
DiffModel(old_model, new_model) ==
    LET common == DOMAIN old_model.fields \cap DOMAIN new_model.fields
        changed == {f \in common :
                       ChangedAttrs(old_model.fields[f], new_model.fields[f]) # {}}
    IN  [added_fields   |-> [f \in DOMAIN new_model.fields \ DOMAIN old_model.fields
                                |-> new_model.fields[f]],
         deleted_fields |-> DOMAIN old_model.fields \ DOMAIN new_model.fields,
         changed_fields |-> [f \in changed |->
                                [a \in ChangedAttrs(old_model.fields[f],
                                                    new_model.fields[f])
                                    |-> AttrValue(new_model.fields[f], a)]],
         meta_changed   |-> ChangedMeta(old_model.meta, new_model.meta)]

\* the <<application, model>> pairs of a signature
ModelsOf(sig) == UNION {{<<a, n>> : n \in DOMAIN sig[a]} : a \in DOMAIN sig}

\* Diff(old, new): per model present in both its sub-diff, and the models
\* present in only one of the two
Diff(old, new) ==
    [models         |-> [p \in ModelsOf(old) \cap ModelsOf(new) |->
                            DiffModel(old[p[1]][p[2]], new[p[1]][p[2]])],
     deleted_models |-> ModelsOf(old) \ ModelsOf(new),
     added_models   |-> ModelsOf(new) \ ModelsOf(old)]

\* a model's sub-diff is empty
ModelDiffEmpty(md) ==
    /\ DOMAIN md.added_fields = {}
    /\ md.deleted_fields = {}
    /\ DOMAIN md.changed_fields = {}
    /\ md.meta_changed = {}

\* Diff.is_empty(): no application has a non-empty sub-diff
IsEmpty(diff) ==
    /\ diff.deleted_models = {}
    /\ diff.added_models = {}
    /\ \A p \in DOMAIN diff.models : ModelDiffEmpty(diff.models[p])

(***************************************************************************)
(* The Hint Generator (Diff.evolution), as spec.md section 4.3 describes   *)
(* it and tests/signature.py prints its result.                            *)
(***************************************************************************)
\* the initial value the hint writes for a field that needs one
USER_VALUE_REQUIRED == "<<USER VALUE REQUIRED>>"

\* AddField hinted for an added field
HintAddField(model_name, field_name, field_sig) ==
    AddField(model_name, field_name, field_sig["field_type"],
             IF /\ field_sig["field_type"] # ManyToManyField
                /\ ~Truthy(AttrValue(field_sig, "null"))
             THEN USER_VALUE_REQUIRED
             ELSE "None",
             Pop(field_sig, "field_type"))

\* a variant that hints one ChangeField per changed attribute
HintChangesPerAttribute(model_name, md) ==
    Concat([i \in 1..Len(Sorted(DOMAIN md.changed_fields)) |->
        LET f == Sorted(DOMAIN md.changed_fields)[i]
            attrs == SelectSeq(<<"db_column", "db_index", "db_table", "field_type",
                                 "max_length", "null", "primary_key", "related_model",
                                 "unique">>,
                               LAMBDA a : a \in DOMAIN md.changed_fields[f])
        IN  [j \in 1..Len(attrs) |->
                ChangeField(model_name, f, "None",
                            [a \in {attrs[j]} |-> md.changed_fields[f][a]])]])

\* the ChangeFields hinted for the changed fields of a model: one per field,
\* with all its changed attributes
HintChanges(model_name, md) ==
    [i \in 1..Len(Sorted(DOMAIN md.changed_fields)) |->
        LET f == Sorted(DOMAIN md.changed_fields)[i]
        IN  ChangeField(model_name, f, "None", md.changed_fields[f])]

\* a variant that hints a rename when one field went and one field came
HintModelRenaming(model_name, md) ==
    IF Cardinality(DOMAIN md.added_fields) = 1 /\ Cardinality(md.deleted_fields) = 1
    THEN << RenameField(model_name, Sorted(md.deleted_fields)[1],
                        Sorted(DOMAIN md.added_fields)[1], "None", "None") >>
         \o HintChanges(model_name, md)
    ELSE [i \in 1..Len(Sorted(DOMAIN md.added_fields)) |->
            LET f == Sorted(DOMAIN md.added_fields)[i]
            IN  HintAddField(model_name, f, md.added_fields[f])]
         \o [i \in 1..Len(Sorted(md.deleted_fields)) |->
            DeleteField(model_name, Sorted(md.deleted_fields)[i])]
         \o HintChanges(model_name, md)

\* a variant that hints the deletions first
HintModelDeletesFirst(model_name, md) ==
    [i \in 1..Len(Sorted(md.deleted_fields)) |->
        DeleteField(model_name, Sorted(md.deleted_fields)[i])]
    \o [i \in 1..Len(Sorted(DOMAIN md.added_fields)) |->
        LET f == Sorted(DOMAIN md.added_fields)[i]
        IN  HintAddField(model_name, f, md.added_fields[f])]
    \o HintChanges(model_name, md)

\* the mutations hinted for one model present in both signatures: its
\* AddFields, then its DeleteFields, then its ChangeFields
HintModel(model_name, md) ==
    [i \in 1..Len(Sorted(DOMAIN md.added_fields)) |->
        LET f == Sorted(DOMAIN md.added_fields)[i]
        IN  HintAddField(model_name, f, md.added_fields[f])]
    \o [i \in 1..Len(Sorted(md.deleted_fields)) |->
        DeleteField(model_name, Sorted(md.deleted_fields)[i])]
    \o HintChanges(model_name, md)

\* the mutations hinted for one application
HintApp(app_label, diff) ==
    LET changed == Sorted({p[2] : p \in {q \in DOMAIN diff.models : q[1] = app_label}})
        deleted == Sorted({p[2] : p \in {q \in diff.deleted_models : q[1] = app_label}})
    IN  Concat([i \in 1..Len(changed) |->
                   HintModel(changed[i], diff.models[<<app_label, changed[i]>>])])
        \o [i \in 1..Len(deleted) |-> DeleteModel(deleted[i])]

\* a variant that keeps the applications that have no mutation
EvolutionOfEveryApplication(diff) ==
    LET apps == {p[1] : p \in DOMAIN diff.models \cup diff.deleted_models}
    IN  [a \in apps |-> HintApp(a, diff)]

\* Diff.evolution(): application label -> its mutations, for the
\* applications that have any
Evolution(diff) ==
    LET apps == {p[1] : p \in DOMAIN diff.models \cup diff.deleted_models}
    IN  [a \in {b \in apps : HintApp(b, diff) # <<>>} |-> HintApp(a, diff)]

(***************************************************************************)
(* The mutate steps.  The schema backend (the evolver) is an external      *)
(* collaborator: a statement it returns is modelled by a tuple naming the  *)
(* backend operation and its arguments.                                    *)
(***************************************************************************)
\* Result of a mutate step: how the call ended, the statements returned and
\* the signature the call left behind (the mock models are built from the
\* signature in place)
Mutated(status, sql, sig) == [status |-> status, sql |-> sql, sig |-> sig]

\* Result of building a mock object: whether it was built, and the signature
\* left behind
Built(ok, sig) == [ok |-> ok, sig |-> sig]

\* related_model.split('.') for the references the model uses
SplitRelated ==
    [r \in {"other.Anchor", "tests.TestModel", "other.Gone"} |->
        CASE r = "other.Anchor"    -> <<"other", "Anchor">>
          [] r = "tests.TestModel" -> <<"tests", "TestModel">>
          [] r = "other.Gone"      -> <<"other", "Gone">>]

\* create_field: the related model of the field, when it names one, must be
\* in the project signature (a stub MockModel is built from it)
CreateFieldOk(proj_sig, field_attrs) ==
    LET related_model == Get(field_attrs, "related_model", "None")
    IN  Truthy(related_model) =>
            HasModel(proj_sig, SplitRelated[related_model][1],
                     SplitRelated[related_model][2])

\* a variant of create_field that does not put related_model back
RestoreRelatedModelNever(field_attrs, related_model) == field_attrs

\* create_field, line 38: field_attrs['related_model'] = related_model
RestoreRelatedModel(field_attrs, related_model) ==
    Update(field_attrs, [related_model |-> related_model])

\* setup_fields, DeleteField.mutate and RenameField.mutate:
\* field_sig['field_type'] = field_type
RestoreFieldType(field_sig, field_type) ==
    Update(field_sig, [field_type |-> field_type])

\* a local variable: the value of Op on v, with v evaluated once
With(v, Op(_)) == CHOOSE r \in {Op(x) : x \in {v}} : TRUE

RECURSIVE SetupFieldsFrom(_, _, _, _)

\* create_field on the field signature at proj_sig[a][mn]['fields'][f], whose
\* field_type the caller has popped: related_model is popped (line 29); when
\* it is truthy a stub of the related model is built and related_model is
\* put back (lines 31-38), which a KeyError on the way prevents
CreateFieldAt(proj_sig, a, mn, f) ==
    LET field_attrs   == proj_sig[a][mn].fields[f]
        related_model == Get(field_attrs, "related_model", "None")
        ra == SplitRelated[related_model][1]
        rm == SplitRelated[related_model][2]
    IN  With([proj_sig EXCEPT ![a][mn].fields[f] = Pop(field_attrs, "related_model")],
             LAMBDA popped :
          IF ~Truthy(related_model)
          THEN Built(TRUE, popped)
          ELSE IF ~HasModel(popped, ra, rm)
          THEN Built(FALSE, popped)
          ELSE With(SetupFieldsFrom(popped, ra, rm,
                        SelectSeq(Sorted(DOMAIN popped[ra][rm].fields), LAMBDA g :
                            Truthy(Get(popped[ra][rm].fields[g], "primary_key", "False")))),
                    LAMBDA to :
                 IF ~to.ok
                 THEN to
                 ELSE Built(TRUE, [to.sig EXCEPT ![a][mn].fields[f] =
                                      RestoreRelatedModel(@, related_model)])))

\* setup_fields, lines 142-152, over the fields named: field_type is popped,
\* the field is created and field_type is put back; an exception leaves the
\* field as it was when it was raised
SetupFieldsFrom(proj_sig, a, mn, names) ==
    IF names = <<>>
    THEN Built(TRUE, proj_sig)
    ELSE
      LET f         == Head(names)
          field_sig == proj_sig[a][mn].fields[f]
      IN  IF "field_type" \notin DOMAIN field_sig
          THEN Built(FALSE, proj_sig)
          ELSE
            With([proj_sig EXCEPT ![a][mn].fields[f] = Pop(field_sig, "field_type")],
                 LAMBDA popped :
              With(CreateFieldAt(popped, a, mn, f), LAMBDA created :
                IF ~created.ok
                THEN created
                ELSE With([created.sig EXCEPT ![a][mn].fields[f] =
                               RestoreFieldType(@, field_sig["field_type"])],
                          LAMBDA restored :
                       SetupFieldsFrom(restored, a, mn, Tail(names)))))

\* MockModel(proj_sig, app_name, model_name, model_sig, stub): setup_fields
\* goes through every field of the model, or through its primary key only
\* for a stub
MockModel(proj_sig, a, mn, stub) ==
    SetupFieldsFrom(proj_sig, a, mn,
        SelectSeq(Sorted(DOMAIN proj_sig[a][mn].fields), LAMBDA f :
            ~stub \/ Truthy(Get(proj_sig[a][mn].fields[f], "primary_key", "False"))))

\* create_field on attributes that are not part of the signature (those of
\* an AddField, the copy RenameField makes): only the stub of the related
\* model touches the signature
CreateFieldDetached(proj_sig, field_attrs) ==
    LET related_model == Get(field_attrs, "related_model", "None")
    IN  IF ~CreateFieldOk(proj_sig, field_attrs)
        THEN Built(FALSE, proj_sig)
        ELSE IF Truthy(related_model)
        THEN MockModel(proj_sig, SplitRelated[related_model][1],
                       SplitRelated[related_model][2], TRUE)
        ELSE Built(TRUE, proj_sig)

\* field._get_m2m_db_table(model._meta): the db_table override or the
\* default name, made of the model's and the field's names
M2MTable(model_name, field_name, field_sig) ==
    IF Truthy(Get(field_sig, "db_table", "None"))
    THEN <<field_sig["db_table"]>>
    ELSE <<model_name, field_name>>

\* field.column: the db_column override or the field's name
Column(field_name, field_sig) ==
    IF Truthy(Get(field_sig, "db_column", "None"))
    THEN field_sig["db_column"]
    ELSE field_name

\* DeleteField.mutate
DeleteFieldMutate(m, app_label, proj_sig) ==
    IF ~HasModel(proj_sig, app_label, m.model_name)
    THEN Mutated("KeyError", <<>>, proj_sig)
    ELSE IF m.field_name \notin DOMAIN proj_sig[app_label][m.model_name].fields
    THEN Mutated("KeyError", <<>>, proj_sig)
    ELSE
      With(MockModel(proj_sig, app_label, m.model_name, FALSE), LAMBDA model :
        IF ~model.ok
        THEN Mutated("KeyError", <<>>, model.sig)
        ELSE
          LET field_sig  == model.sig[app_label][m.model_name].fields[m.field_name]
              field_type == field_sig["field_type"]
          IN  With([model.sig EXCEPT ![app_label][m.model_name].fields[m.field_name] =
                        Pop(field_sig, "field_type")],
                   LAMBDA popped :
                With(CreateFieldAt(popped, app_label, m.model_name, m.field_name),
                     LAMBDA field :
                  IF ~field.ok
                  THEN Mutated("KeyError", <<>>, field.sig)
                  ELSE
                    With([field.sig EXCEPT ![app_label][m.model_name].fields[m.field_name] =
                              RestoreFieldType(@, field_type)],
                         LAMBDA restored :
                      IF field_type = ManyToManyField
                      THEN Mutated("ok", << <<"delete_table">>
                                \o M2MTable(m.model_name, m.field_name, field_sig) >>,
                                restored)
                      ELSE Mutated("ok", << <<"delete_column", m.model_name,
                                              Column(m.field_name, field_sig)>> >>,
                                   restored)))))

\* AddField.mutate: add_column (and create_index) or add_m2m_table
AddFieldMutate(m, app_label, proj_sig) ==
    IF ~HasModel(proj_sig, app_label, m.model_name)
    THEN Mutated("KeyError", <<>>, proj_sig)
    ELSE
      With(MockModel(proj_sig, app_label, m.model_name, FALSE), LAMBDA model :
        IF ~model.ok
        THEN Mutated("KeyError", <<>>, model.sig)
        ELSE
          With(CreateFieldDetached(model.sig, m.field_attrs), LAMBDA field :
            IF ~field.ok
            THEN Mutated("KeyError", <<>>, field.sig)
            ELSE IF m.field_type = ManyToManyField
            THEN IF "related_model" \notin DOMAIN m.field_attrs
                 THEN Mutated("KeyError", <<>>, field.sig)
                 ELSE
                   With(MockModel(field.sig,
                                  SplitRelated[m.field_attrs["related_model"]][1],
                                  SplitRelated[m.field_attrs["related_model"]][2], FALSE),
                        LAMBDA related_model :
                     IF ~related_model.ok
                     THEN Mutated("KeyError", <<>>, related_model.sig)
                     ELSE Mutated("ok", << <<"add_m2m_table">>
                              \o M2MTable(m.model_name, m.field_name, m.field_attrs) >>,
                              related_model.sig))
            ELSE Mutated("ok",
                     << <<"add_column", m.model_name,
                          Column(m.field_name, m.field_attrs), m.initial>> >>
                     \o (IF Truthy(Get(m.field_attrs, "db_index", "False"))
                         THEN << <<"create_index", m.model_name,
                                   Column(m.field_name, m.field_attrs)>> >>
                         ELSE <<>>),
                     field.sig)))

\* RenameField.mutate
RenameFieldMutate(m, app_label, proj_sig) ==
    IF ~HasModel(proj_sig, app_label, m.model_name)
    THEN Mutated("KeyError", <<>>, proj_sig)
    ELSE IF m.old_field_name \notin DOMAIN proj_sig[app_label][m.model_name].fields
    THEN Mutated("KeyError", <<>>, proj_sig)
    ELSE IF "field_type" \notin
                DOMAIN proj_sig[app_label][m.model_name].fields[m.old_field_name]
    THEN Mutated("KeyError", <<>>, proj_sig)
    ELSE
      LET old_field_sig == proj_sig[app_label][m.model_name].fields[m.old_field_name]
          field_type    == old_field_sig["field_type"]
          new_field_sig == RenamedFieldSig(m, old_field_sig)
      IN  With([proj_sig EXCEPT ![app_label][m.model_name].fields[m.old_field_name] =
                    Pop(old_field_sig, "field_type")],
               LAMBDA popped :
            With(CreateFieldAt(popped, app_label, m.model_name, m.old_field_name),
                 LAMBDA old_field :
              IF ~old_field.ok
              THEN Mutated("KeyError", <<>>, old_field.sig)
              ELSE
                With(CreateFieldDetached(old_field.sig, Pop(new_field_sig, "field_type")),
                     LAMBDA new_field :
                  IF ~new_field.ok
                  THEN Mutated("KeyError", <<>>, new_field.sig)
                  ELSE
                    With([new_field.sig EXCEPT
                              ![app_label][m.model_name].fields[m.old_field_name] =
                                  RestoreFieldType(@, field_type)],
                         LAMBDA restored :
                      With(MockModel(restored, app_label, m.model_name, FALSE),
                           LAMBDA model :
                        IF ~model.ok
                        THEN Mutated("KeyError", <<>>, model.sig)
                        ELSE IF field_type = ManyToManyField
                        THEN Mutated("ok", << <<"rename_table">>
                                 \o M2MTable(m.model_name, m.old_field_name, old_field_sig)
                                 \o M2MTable(m.model_name, m.new_field_name, new_field_sig) >>,
                                 model.sig)
                        ELSE Mutated("ok", << <<"rename_column", m.model_name,
                                                Column(m.old_field_name, old_field_sig),
                                                Column(m.new_field_name, new_field_sig)>> >>,
                                     model.sig))))))

\* the attributes the backend has a change_<attribute> operation for
ChangeOperations == {"null", "max_length", "db_column", "db_table", "unique", "db_index"}

\* the order in which ChangeField.mutate goes through the attributes
AttrOrder ==
    <<"db_column", "db_index", "db_table", "field_type", "max_length", "null",
      "primary_key", "related_model", "unique">>

\* a variant that takes no requested value for unchanged
IsNoOpNever(old_field_attr, attr_value) == FALSE

\* line 609, "if not old_field_attr == attr_value": nothing has changed
IsNoOp(old_field_attr, attr_value) == old_field_attr = attr_value

\* ChangeField.mutate: one change_<attribute> call per attribute whose value
\* differs from the signature's; an attribute without a declared default is
\* a KeyError and one without a backend operation is not implemented
ChangeFieldMutate(m, app_label, proj_sig) ==
    IF ~HasModel(proj_sig, app_label, m.model_name)
    THEN Mutated("KeyError", <<>>, proj_sig)
    ELSE IF m.field_name \notin DOMAIN proj_sig[app_label][m.model_name].fields
    THEN Mutated("KeyError", <<>>, proj_sig)
    ELSE
      With(MockModel(proj_sig, app_label, m.model_name, FALSE), LAMBDA model :
        IF ~model.ok
        THEN Mutated("KeyError", <<>>, model.sig)
        ELSE
          LET old_field_sig == model.sig[app_label][m.model_name].fields[m.field_name]
              attrs   == SelectSeq(AttrOrder, LAMBDA a : a \in DOMAIN m.field_attrs)
              differs == SelectSeq(attrs, LAMBDA a :
                             a \in DOMAIN ATTRIBUTE_DEFAULTS
                             /\ ~IsNoOp(Get(old_field_sig, a, ATTRIBUTE_DEFAULTS[a]),
                                        m.field_attrs[a]))
          IN  IF \E a \in DOMAIN m.field_attrs : a \notin DOMAIN ATTRIBUTE_DEFAULTS
              THEN Mutated("KeyError", <<>>, model.sig)
              ELSE IF \E i \in 1..Len(differs) : differs[i] \notin ChangeOperations
              THEN Mutated("EvolutionNotImplementedError", <<>>, model.sig)
              ELSE Mutated("ok",
                       [i \in 1..Len(differs) |->
                           IF differs[i] = "null"
                           THEN <<"change_null", m.model_name, m.field_name,
                                  m.field_attrs["null"], m.initial>>
                           ELSE IF differs[i] = "db_table"
                           THEN <<"change_db_table", m.model_name,
                                  Get(old_field_sig, "db_table", "None"),
                                  m.field_attrs["db_table"]>>
                           ELSE <<"change_attr", differs[i], m.model_name,
                                  m.field_name, m.field_attrs[differs[i]]>>],
                       model.sig))

\* a variant that drops the model's table before its many-to-many tables
DeleteModelMutateTableFirst(m, app_label, proj_sig) ==
    IF ~HasModel(proj_sig, app_label, m.model_name)
    THEN Mutated("KeyError", <<>>, proj_sig)
    ELSE
      With(MockModel(proj_sig, app_label, m.model_name, FALSE), LAMBDA model :
        IF ~model.ok
        THEN Mutated("KeyError", <<>>, model.sig)
        ELSE
          LET model_sig == model.sig[app_label][m.model_name]
              m2m == SelectSeq(Sorted(DOMAIN model_sig.fields), LAMBDA f :
                         model_sig.fields[f]["field_type"] = ManyToManyField)
          IN  Mutated("ok",
                  << <<"delete_table", m.model_name>> >>
                  \o [i \in 1..Len(m2m) |->
                      <<"delete_table">>
                      \o M2MTable(m.model_name, m2m[i], model_sig.fields[m2m[i]])],
                  model.sig))

\* DeleteModel.mutate: the many-to-many tables first, the model's table last
DeleteModelMutate(m, app_label, proj_sig) ==
    IF ~HasModel(proj_sig, app_label, m.model_name)
    THEN Mutated("KeyError", <<>>, proj_sig)
    ELSE
      With(MockModel(proj_sig, app_label, m.model_name, FALSE), LAMBDA model :
        IF ~model.ok
        THEN Mutated("KeyError", <<>>, model.sig)
        ELSE
          LET model_sig == model.sig[app_label][m.model_name]
              m2m == SelectSeq(Sorted(DOMAIN model_sig.fields), LAMBDA f :
                         model_sig.fields[f]["field_type"] = ManyToManyField)
          IN  Mutated("ok",
                  [i \in 1..Len(m2m) |->
                      <<"delete_table">>
                      \o M2MTable(m.model_name, m2m[i], model_sig.fields[m2m[i]])]
                  \o << <<"delete_table", m.model_name>> >>,
                  model.sig))

RECURSIVE DeleteModelsFrom(_, _, _, _)

\* the loop of DeleteApplication.mutate over the models named: the
\* statements of each DeleteModel are added to those collected so far
DeleteModelsFrom(names, app_label, proj_sig, sql_statements) ==
    IF names = <<>>
    THEN Mutated("ok", sql_statements, proj_sig)
    ELSE
      With(DeleteModelMutate(DeleteModel(Head(names)), app_label, proj_sig), LAMBDA r :
        IF r.status # "ok"
        THEN Mutated(r.status, <<>>, r.sig)
        ELSE With(sql_statements \o r.sql, LAMBDA collected :
               DeleteModelsFrom(Tail(names), app_label, r.sig, collected)))

\* DeleteApplication.mutate: nothing unless a database is given
DeleteApplicationMutate(m, app_label, proj_sig, database) ==
    IF ~Truthy(database)
    THEN Mutated("ok", <<>>, proj_sig)
    ELSE IF app_label \notin DOMAIN proj_sig
    THEN Mutated("KeyError", <<>>, proj_sig)
    ELSE DeleteModelsFrom(
             SelectSeq(Sorted(DOMAIN proj_sig[app_label]), LAMBDA n :
                 IsMutable(app_label, n, database)),
             app_label, proj_sig, <<>>)

\* SQLMutation.mutate returns the raw SQL
SQLMutationMutate(m, app_label, proj_sig) == Mutated("ok", m.sql, proj_sig)

\* mutation.mutate(app_label, proj_sig, database): dynamic dispatch
Mutate(m, app_label, proj_sig, database) ==
    CASE m.variant = "SQLMutation"       -> SQLMutationMutate(m, app_label, proj_sig)
      [] m.variant = "DeleteField"       -> DeleteFieldMutate(m, app_label, proj_sig)
      [] m.variant = "AddField"          -> AddFieldMutate(m, app_label, proj_sig)
      [] m.variant = "RenameField"       -> RenameFieldMutate(m, app_label, proj_sig)
      [] m.variant = "ChangeField"       -> ChangeFieldMutate(m, app_label, proj_sig)
      [] m.variant = "DeleteModel"       -> DeleteModelMutate(m, app_label, proj_sig)
      [] m.variant = "DeleteApplication" ->
             DeleteApplicationMutate(m, app_label, proj_sig, database)

(***************************************************************************)
(* Signatures the model draws its inputs from (the models of               *)
(* tests/signature.py)                                                     *)
(***************************************************************************)
AutoFieldPk    == [field_type |-> "AutoField", primary_key |-> "True"]
IntegerSig     == [field_type |-> "IntegerField"]
IntegerNull    == [field_type |-> "IntegerField", null |-> "True"]
IntegerNotNull == [field_type |-> "IntegerField", null |-> "False"]
Char20         == [field_type |-> "CharField", max_length |-> "20"]
Char30Null     == [field_type |-> "CharField", max_length |-> "30", null |-> "True"]
ManyToAnchor   == [field_type |-> ManyToManyField, related_model |-> "other.Anchor"]

\* a model signature
ModelSig(fields, unique_together) ==
    [fields |-> fields, meta |-> [unique_together |-> unique_together]]

\* class BaseModel: name = CharField(max_length=20); age = IntegerField()
BaseModel == ModelSig([id |-> AutoFieldPk, name |-> Char20, age |-> IntegerSig], <<>>)

\* class DeleteFieldModel: name = CharField(max_length=20)
DeleteFieldModel == ModelSig([id |-> AutoFieldPk, name |-> Char20], <<>>)

\* class Anchor1: value = IntegerField()
AnchorModel == ModelSig([id |-> AutoFieldPk, value |-> IntegerSig], <<>>)

\* Anchor with value = IntegerField(null=True)
AnchorNullModel == ModelSig([id |-> AutoFieldPk, value |-> IntegerNull], <<>>)

\* a project signature of the two applications
ProjectSig(test_model, anchor_model) ==
    [tests |-> [TestModel |-> test_model], other |-> [Anchor |-> anchor_model]]

\* the baseline recorded in the history store
BaseSig == ProjectSig(BaseModel, AnchorModel)

(***************************************************************************)
(* The evolve command: state                                               *)
(***************************************************************************)
VARIABLES
    options,            \* hint, execute, compile_sql, interactive
    app_labels,         \* the application labels given on the command line
    scripts,            \* the evolution scripts in source: app -> <<[label, mutations]>>
    pc,                 \* the position of the run in Command.handle
    app_list, app_i,    \* the applications of the run and the one being processed
    mutations, mut_i,   \* the mutations of that application and the one being processed
    evolutions,         \* the labels of that application's unapplied evolutions
    evolution_required, simulated, sql, new_evolutions,
    current_proj_sig,   \* the signature of the models in code (the target)
    current_signature,  \* its pickle
    database_sig,       \* the working signature the mutations are simulated on
    diff,               \* Diff(database_sig, current_proj_sig) taken before the loop
    confirm, stmt_i,
    database,           \* what the connection sees: statements, versions, evolutions
    committed,          \* what is committed: statements, versions, evolutions
    output,             \* what the run has printed
    exit_status,        \* "running", "0" or "1"
    calls,              \* the mutate and simulate calls made, in order
    last,               \* the last simulate step taken on its own: mutation, outcome
    steps,              \* the number of such steps taken
    queue,              \* the hinted mutations not yet simulated
    runs                \* the earlier runs of the command: options, history store

vars ==
    <<options, app_labels, scripts, pc, app_list, app_i, mutations, mut_i,
      evolutions, evolution_required, simulated, sql, new_evolutions,
      current_proj_sig, current_signature, database_sig, diff, confirm, stmt_i,
      database, committed, output, exit_status, calls, last, steps, queue, runs>>

\* pickle.dumps and pickle.loads of a signature
Pickle(sig) == [pickled |-> sig]
Unpickle(bytes) == bytes.pickled

\* get_apps(): the installed applications, in order
InstalledApps == <<"tests", "other">>

(***************************************************************************)
(* Bounds of the model                                                     *)
(***************************************************************************)
\* how many simulate steps one exploration of the mutations takes in a row
MaxSteps == 1

\* how many optional fields (of name, age, ref, full_name) the compared
\* signatures of TestModel are drawn over
MaxFields == 3

\* how many times the command is run again after a run that committed
MaxRuns == 1

(***************************************************************************)
(* The state of a run that has not started (used by the specifications     *)
(* that exercise the mutations and the Differ on their own)                *)
(***************************************************************************)
NoCall == [status |-> "none"]

EmptyDatabase == [statements |-> <<>>, versions |-> <<>>, evolutions |-> <<>>]

CommandIdle ==
    /\ options = [hint |-> FALSE, execute |-> FALSE, compile_sql |-> FALSE,
                  interactive |-> TRUE]
    /\ app_labels = <<>>
    /\ scripts = [a \in {"tests", "other"} |-> <<>>]
    /\ app_list = <<>>
    /\ app_i = 0
    /\ mutations = <<>>
    /\ mut_i = 0
    /\ evolutions = <<>>
    /\ evolution_required = FALSE
    /\ simulated = TRUE
    /\ sql = <<>>
    /\ new_evolutions = <<>>
    /\ current_signature = Pickle(current_proj_sig)
    /\ diff = Diff(database_sig, current_proj_sig)
    /\ confirm = ""
    /\ stmt_i = 0
    /\ database = EmptyDatabase
    /\ committed = EmptyDatabase
    /\ output = <<>>
    /\ exit_status = "running"
    /\ calls = <<>>
    /\ runs = <<>>

commandVars ==
    <<options, app_labels, scripts, app_list, app_i, mutations, mut_i,
      evolutions, evolution_required, simulated, sql, new_evolutions,
      current_signature, diff, confirm, stmt_i, database, committed, output,
      exit_status, calls, runs>>

(***************************************************************************)
(* SpecSim: the simulate steps of the mutations, called one after the      *)
(* other on a signature                                                    *)
(***************************************************************************)
\* TestModel with name as its primary key, name and age unique together
NamePkModel ==
    ModelSig([name |-> Update(Char20, [primary_key |-> "True"]), age |-> IntegerSig],
             << <<"name", "age">> >>)

\* BaseModel with a many-to-many field and two unique_together tuples
RefModel ==
    ModelSig([id |-> AutoFieldPk, name |-> Char20, age |-> IntegerSig,
              ref |-> ManyToAnchor],
             << <<"name", "age">>, <<"age">> >>)

SimSigs ==
    {ProjectSig(BaseModel, AnchorModel), ProjectSig(NamePkModel, AnchorModel),
     ProjectSig(RefModel, AnchorModel), ProjectSig(DeleteFieldModel, AnchorModel)}

SimModelNames == {"TestModel", "Missing"}

SimInit ==
    /\ database_sig \in SimSigs
    /\ current_proj_sig = database_sig
    /\ pc = "simulate"
    /\ last = NoCall
    /\ steps = 0
    /\ queue = <<>>
    /\ CommandIdle

\* a further call can be made
CanSimulate == pc = "simulate" /\ steps < MaxSteps

\* one call of mutation.simulate(app_label, database_sig, database)
SimStep(m, app_label, db) ==
    /\ LET o == Simulate(m, app_label, database_sig, db)
       IN  /\ database_sig' = o.sig
           /\ last' = [status |-> o.status, mutation |-> m, app_label |-> app_label,
                       database |-> db, before |-> database_sig]
    /\ steps' = steps + 1
    /\ UNCHANGED <<pc, current_proj_sig, queue>>
    /\ UNCHANGED commandVars

SimAddField ==
    /\ CanSimulate
    /\ \E model_name \in SimModelNames, field_name \in {"ref", "name"},
          field_type \in {"IntegerField", ManyToManyField},
          initial \in {"None", "1"},
          field_attrs \in {EmptyDict, [null |-> "True"], [null |-> "False"],
                           [primary_key |-> "True", null |-> "True"]} :
           SimStep(AddField(model_name, field_name, field_type, initial,
                            IF field_type = ManyToManyField
                            THEN Update(field_attrs, [related_model |-> "other.Anchor"])
                            ELSE field_attrs),
                   "tests", "None")

SimDeleteField ==
    /\ CanSimulate
    /\ \E model_name \in SimModelNames, field_name \in {"id", "name", "age", "ref"} :
           SimStep(DeleteField(model_name, field_name), "tests", "None")

SimRenameField ==
    /\ CanSimulate
    /\ \E old_field_name \in {"name", "ref", "full_name"},
          new_field_name \in {"full_name", "age"},
          override \in {"None", "renamed"} :
           SimStep(RenameField("TestModel", old_field_name, new_field_name,
                               override, override), "tests", "None")

SimChangeField ==
    /\ CanSimulate
    /\ \E field_name \in {"id", "age", "ref", "full_name"}, initial \in {"None", "1"},
          field_attrs \in {[null |-> "True"], [null |-> "False"],
                           [max_length |-> "30", null |-> "False"],
                           [primary_key |-> "False"]} :
           SimStep(ChangeField("TestModel", field_name, initial, field_attrs),
                   "tests", "None")

SimDeleteModel ==
    /\ CanSimulate
    /\ \E app_label \in {"tests", "other", "gone"}, model_name \in {"TestModel", "Anchor"} :
           SimStep(DeleteModel(model_name), app_label, "None")

SimDeleteApplication ==
    /\ CanSimulate
    /\ \E app_label \in {"tests", "gone"}, db \in {"None", "default"} :
           SimStep(DeleteApplication, app_label, db)

SimSQLMutation ==
    /\ CanSimulate
    /\ \E update_func \in {NoUpdateFunc, UpdateFunc("TestModel")} :
           SimStep(SQLMutation("tag", << <<"raw", "1">> >>, update_func), "tests", "None")

SimNext ==
    \/ SimAddField
    \/ SimDeleteField
    \/ SimRenameField
    \/ SimChangeField
    \/ SimDeleteModel
    \/ SimDeleteApplication
    \/ SimSQLMutation

SpecSim == SimInit /\ [][SimNext]_vars

(***************************************************************************)
(* SpecMut: the mutate steps of the mutations, called one after the other  *)
(* on a signature                                                          *)
(***************************************************************************)
\* TestModel with a foreign key to itself
SelfRefModel ==
    ModelSig([id |-> AutoFieldPk, name |-> Char20,
              ref |-> [field_type |-> "ForeignKey", related_model |-> "tests.TestModel"]],
             <<>>)

\* TestModel with a foreign key to a model the signature does not hold
DanglingModel ==
    ModelSig([id |-> AutoFieldPk, name |-> Char20,
              ref |-> [field_type |-> "ForeignKey", related_model |-> "other.Gone"]],
             <<>>)

MutSigs ==
    SimSigs \cup {ProjectSig(SelfRefModel, AnchorModel),
                  ProjectSig(DanglingModel, AnchorModel)}

MutInit ==
    /\ database_sig \in MutSigs
    /\ current_proj_sig = database_sig
    /\ pc = "mutate"
    /\ last = NoCall
    /\ steps = 0
    /\ queue = <<>>
    /\ CommandIdle

\* a further call can be made
CanMutate == pc = "mutate" /\ steps < MaxSteps

\* one call of mutation.mutate(app_label, database_sig, database)
MutStep(m, app_label, db) ==
    /\ \E r \in {Mutate(m, app_label, database_sig, db)} :
           /\ database_sig' = r.sig
           /\ last' = [status |-> r.status, mutation |-> m, app_label |-> app_label,
                       database |-> db, before |-> database_sig, sql |-> r.sql]
    /\ steps' = steps + 1
    /\ UNCHANGED <<pc, current_proj_sig, queue>>
    /\ UNCHANGED commandVars

MutAddField ==
    /\ CanMutate
    /\ \E model_name \in SimModelNames, field_name \in {"full_name", "value"},
          field_type \in {"IntegerField", "ForeignKey", ManyToManyField},
          field_attrs \in {[null |-> "True"], [db_index |-> "True", null |-> "True"]},
          related_model \in {"other.Anchor", "tests.TestModel", "other.Gone"} :
           MutStep(AddField(model_name, field_name, field_type, "None",
                            IF field_type = "IntegerField"
                            THEN field_attrs
                            ELSE Update(field_attrs, [related_model |-> related_model])),
                   "tests", "None")

MutDeleteField ==
    /\ CanMutate
    /\ \E model_name \in SimModelNames, field_name \in {"id", "name", "age", "ref"} :
           MutStep(DeleteField(model_name, field_name), "tests", "None")

MutRenameField ==
    /\ CanMutate
    /\ \E old_field_name \in {"name", "ref", "full_name"},
          new_field_name \in {"full_name", "age"},
          override \in {"None", "renamed"} :
           MutStep(RenameField("TestModel", old_field_name, new_field_name,
                               override, override), "tests", "None")

MutChangeField ==
    /\ CanMutate
    /\ \E field_name \in {"name", "age", "ref", "full_name"}, initial \in {"None", "1"},
          field_attrs \in {[null |-> "True"], [null |-> "False"],
                           [max_length |-> "30", null |-> "False"],
                           [primary_key |-> "True"], [related_model |-> "other.Anchor"]} :
           MutStep(ChangeField("TestModel", field_name, initial, field_attrs),
                   "tests", "None")

MutDeleteModel ==
    /\ CanMutate
    /\ \E app_label \in {"tests", "other", "gone"}, model_name \in {"TestModel", "Anchor"} :
           MutStep(DeleteModel(model_name), app_label, "None")

MutDeleteApplication ==
    /\ CanMutate
    /\ \E app_label \in {"tests", "other", "gone"}, db \in {"None", "default"} :
           MutStep(DeleteApplication, app_label, db)

MutSQLMutation ==
    /\ CanMutate
    /\ \E sql_statements \in {<<>>, << <<"raw", "1">> >>, << <<"raw", "1">>, <<"raw", "2">> >>} :
           MutStep(SQLMutation("tag", sql_statements, NoUpdateFunc), "tests", "None")

MutNext ==
    \/ MutAddField
    \/ MutDeleteField
    \/ MutRenameField
    \/ MutChangeField
    \/ MutDeleteModel
    \/ MutDeleteApplication
    \/ MutSQLMutation

SpecMut == MutInit /\ [][MutNext]_vars

(***************************************************************************)
(* SpecHint: the hinted evolution of one signature into another:           *)
(* Diff(S1, S2).evolution() and the simulation of its mutations, in        *)
(* order, on a copy of S1                                                  *)
(***************************************************************************)
\* the optional fields of TestModel and the signatures each is drawn from
OptionalFields == <<"name", "age", "ref", "full_name">>

FieldChoices(field_name) ==
    CASE field_name = "name"      -> {Char20, Char30Null}
      [] field_name = "age"       -> {IntegerSig, IntegerNull, IntegerNotNull}
      [] field_name = "ref"       -> {ManyToAnchor, Char20}
      [] field_name = "full_name" -> {Char20}

\* the fields dicts over id and the first MaxFields optional fields
HintFieldDicts ==
    LET names == {OptionalFields[i] : i \in 1..MaxFields}
    IN  UNION {
          {Update([id |-> AutoFieldPk], d) :
              d \in {e \in [present -> UNION {FieldChoices(n) : n \in present}] :
                        \A n \in present : e[n] \in FieldChoices(n)}}
          : present \in SUBSET names}

\* the unique_together values a model with these fields may have
HintUniqueTogether(fields) ==
    {<<>>} \cup (IF {"name", "age"} \subseteq DOMAIN fields
                 THEN {<< <<"name", "age">> >>}
                 ELSE {})

HintModels ==
    UNION {{ModelSig(fields, ut) : ut \in HintUniqueTogether(fields)}
           : fields \in HintFieldDicts}

\* the project signatures compared: TestModel varies, Anchor is there or not
HintSigs ==
    {[tests |-> [TestModel |-> tm], other |-> anchors] :
        tm \in HintModels, anchors \in {[Anchor |-> AnchorModel], EmptyDict}}

HintInit ==
    /\ database_sig \in HintSigs
    /\ current_proj_sig \in HintSigs
    /\ pc = "hint"
    /\ last = NoCall
    /\ steps = 0
    /\ queue = <<>>
    /\ CommandIdle

\* the hinted mutations of all applications, each with its application
HintQueue(evolution) ==
    Concat([i \in 1..Len(InstalledApps) |->
               LET app_label == InstalledApps[i]
                   hinted == Get(evolution, app_label, <<>>)
               IN  [j \in 1..Len(hinted) |->
                       [app_label |-> app_label, mutation |-> hinted[j]]]])

\* diff.evolution()
HintGenerate ==
    /\ pc = "hint"
    /\ queue' = HintQueue(Evolution(Diff(database_sig, current_proj_sig)))
    /\ pc' = "simulating"
    /\ UNCHANGED <<database_sig, current_proj_sig, last, steps>>
    /\ UNCHANGED commandVars

\* mutation.simulate of the next hinted mutation; a failure ends the run
HintSimulate ==
    /\ pc = "simulating"
    /\ queue # <<>>
    /\ LET m == Head(queue).mutation
           app_label == Head(queue).app_label
           o == Simulate(m, app_label, database_sig, "None")
       IN  /\ database_sig' = o.sig
           /\ last' = [status |-> o.status, mutation |-> m, app_label |-> app_label,
                       database |-> "None", before |-> database_sig]
           /\ IF o.status = "ok"
              THEN queue' = Tail(queue) /\ pc' = pc
              ELSE queue' = queue /\ pc' = "failed"
    /\ steps' = steps + 1
    /\ UNCHANGED current_proj_sig
    /\ UNCHANGED commandVars

\* every hinted mutation is simulated
HintDone ==
    /\ pc = "simulating"
    /\ queue = <<>>
    /\ pc' = "simulated"
    /\ UNCHANGED <<database_sig, current_proj_sig, last, steps, queue>>
    /\ UNCHANGED commandVars

HintNext == HintGenerate \/ HintSimulate \/ HintDone

SpecHint == HintInit /\ [][HintNext]_vars

(***************************************************************************)
(* Spec: the evolve command, Command.handle                                *)
(***************************************************************************)
\* evolution scripts the applications may hold in source
DelAge == [label |-> "del_age",
           mutations |-> <<DeleteField("TestModel", "age")>>]

RawThenDelAge ==
    [label |-> "raw_del_age",
     mutations |-> <<SQLMutation("raw", << <<"raw", "1">>, <<"raw", "2">> >>,
                                 NoUpdateFunc),
                     DeleteField("TestModel", "age")>>]

NullValue == [label |-> "null_value",
              mutations |-> <<ChangeField("Anchor", "value", "None",
                                          [null |-> "True"])>>]

DelPk == [label |-> "del_pk", mutations |-> <<DeleteField("Anchor", "id")>>]

\* an evolution of the application "other" that was applied before the run
Initial == [label |-> "initial", mutations |-> <<DeleteModel("Gone")>>]

\* the signatures the models in code may have
Targets ==
    {BaseSig,
     ProjectSig(DeleteFieldModel, AnchorModel),
     ProjectSig(DeleteFieldModel, AnchorNullModel),
     ProjectSig([BaseModel EXCEPT !.meta.unique_together = << <<"name", "age">> >>],
                AnchorModel),
     ProjectSig([DeleteFieldModel EXCEPT !.fields.name = Update(@, [null |-> "False"])],
                AnchorModel)}

\* the history store before the run: the baseline Version and the Evolution
\* applied with it
Baseline ==
    [statements |-> <<>>,
     versions   |-> << [signature |-> Pickle(BaseSig), when |-> 1] >>,
     evolutions |-> << [app_label |-> "other", label |-> "initial", version |-> 1] >>]

Init ==
    /\ options \in [hint : BOOLEAN, execute : BOOLEAN, compile_sql : BOOLEAN,
                    interactive : BOOLEAN]
    /\ app_labels \in {<<>>, <<"tests">>, <<"other">>}
    /\ scripts \in [tests : {<<>>, <<DelAge>>, <<RawThenDelAge>>},
                    other : {<<>>, <<NullValue>>, <<DelPk>>, <<Initial, NullValue>>}]
    /\ current_proj_sig \in Targets
    /\ current_signature = Pickle(current_proj_sig)
    /\ database = Baseline
    /\ committed = Baseline
    /\ pc = "start"
    /\ app_list = <<>>
    /\ app_i = 0
    /\ mutations = <<>>
    /\ mut_i = 0
    /\ evolutions = <<>>
    /\ evolution_required = FALSE
    /\ simulated = TRUE
    /\ sql = <<>>
    /\ new_evolutions = <<>>
    /\ database_sig = EmptyDict
    /\ diff = EmptyDict
    /\ confirm = ""
    /\ stmt_i = 0
    /\ output = <<>>
    /\ exit_status = "running"
    /\ calls = <<>>
    /\ last = NoCall
    /\ steps = 0
    /\ queue = <<>>
    /\ runs = <<>>

\* the variables no step of the command changes
inputVars == <<options, app_labels, scripts, current_proj_sig, current_signature,
               last, steps, queue, runs>>

\* the run ends: sys.exit(status), or the end of handle (status 0)
Exit(status, message) ==
    /\ pc' = "done"
    /\ exit_status' = status
    /\ output' = Append(output, message)

\* get_unapplied_evolutions(app): the labels of the application's scripts
\* that no Evolution row of the history store names
UnappliedEvolutions(app_label) ==
    LET applied == {database.evolutions[i].label :
                       i \in {j \in 1..Len(database.evolutions) :
                                 database.evolutions[j].app_label = app_label}}
        unapplied == SelectSeq(scripts[app_label], LAMBDA e : e.label \notin applied)
    IN  [i \in 1..Len(unapplied) |-> unapplied[i].label]

\* get_mutations(app, evolutions): the mutations of these scripts, in order
GetMutations(app_label, labels) ==
    LET chosen == SelectSeq(scripts[app_label], LAMBDA e :
                      \E i \in 1..Len(labels) : labels[i] = e.label)
    IN  Concat([i \in 1..Len(chosen) |-> chosen[i].mutations])

\* a variant that notes the stored evolutions in hint mode too
EvolutionsOfIgnoringHint(hint, app_label) == UnappliedEvolutions(app_label)

\* lines 78-83: the evolutions noted for an application; none in hint mode
EvolutionsOf(hint, app_label) ==
    IF hint THEN <<>> ELSE UnappliedEvolutions(app_label)

\* a variant that accepts application labels when executing
RejectedNever(labels, opts) == FALSE

\* lines 50-52: application labels cannot be given together with --execute
Rejected(labels, opts) == labels # <<>> /\ opts.execute

\* lines 47-65: the applications of the run
ParseArguments ==
    /\ pc = "start"
    /\ IF Rejected(app_labels, options)
       THEN /\ Exit("1", [kind |-> "CommandError"])
            /\ UNCHANGED app_list
       ELSE /\ app_list' = IF app_labels # <<>> THEN app_labels ELSE InstalledApps
            /\ pc' = "load"
            /\ UNCHANGED <<exit_status, output>>
    /\ UNCHANGED <<app_i, mutations, mut_i, evolutions, evolution_required, simulated,
                   sql, new_evolutions, database_sig, diff, confirm, stmt_i,
                   database, committed, calls>>
    /\ UNCHANGED inputVars

\* lines 67-73: the baseline signature and its diff with the models in code
LoadBaseline ==
    /\ pc = "load"
    /\ IF database.versions = <<>>
       THEN /\ Exit("1", [kind |-> "traceback", error |-> "DoesNotExist"])
            /\ UNCHANGED <<database_sig, diff, app_i>>
       ELSE LET latest_version == database.versions[Len(database.versions)]
            IN  /\ database_sig' = Unpickle(latest_version.signature)
                /\ diff' = Diff(database_sig', current_proj_sig)
                /\ app_i' = 1
                /\ pc' = "app"
                /\ UNCHANGED <<exit_status, output>>
    /\ UNCHANGED <<app_list, mutations, mut_i, evolutions, evolution_required,
                   simulated, sql, new_evolutions, confirm, stmt_i, database,
                   committed, calls>>
    /\ UNCHANGED inputVars

\* a variant that simulates a mutation before it asks for its statements
OrderSimulateFirst == <<"simulate", "mutate">>

\* lines 88 and 90: the two steps of a mutation, in the order of the calls
Order == <<"mutate", "simulate">>

\* lines 87-92: where the loop over the mutations goes after a step that
\* raised nothing
StepDone(step) ==
    IF step = Order[1]
    THEN pc' = Order[2] /\ mut_i' = mut_i
    ELSE IF mut_i < Len(mutations)
    THEN pc' = Order[1] /\ mut_i' = mut_i + 1
    ELSE pc' = "report" /\ mut_i' = mut_i

\* lines 76-86 and 112-114: the next application and its mutations
NextApplication ==
    /\ pc = "app"
    /\ app_i <= Len(app_list)
    /\ LET app_label == app_list[app_i]
       IN  /\ evolutions' = EvolutionsOf(options.hint, app_label)
           /\ mutations' = IF options.hint
                           THEN Get(Evolution(diff), app_label, <<>>)
                           ELSE GetMutations(app_label, evolutions')
    /\ IF mutations' # <<>>
       THEN /\ evolution_required' = TRUE
            /\ mut_i' = 1
            /\ pc' = Order[1]
            /\ UNCHANGED app_i
       ELSE /\ app_i' = app_i + 1
            /\ UNCHANGED <<evolution_required, mut_i, pc>>
    /\ UNCHANGED <<app_list, simulated, sql, new_evolutions, database_sig, diff,
                   confirm, stmt_i, database, committed, output, exit_status, calls>>
    /\ UNCHANGED inputVars

\* a variant that puts the statements of a mutation in front of the others
ExtendedInFront(statements, more) == more \o statements

\* line 88, sql.extend(...): the statements of a mutation follow the ones
\* accumulated so far
Extended(statements, more) == statements \o more

\* line 88: sql.extend(mutation.mutate(app_label, database_sig)); an
\* exception of mutate is caught nowhere and ends the run
MutateStep ==
    /\ pc = "mutate"
    /\ LET app_label == app_list[app_i]
           r == Mutate(mutations[mut_i], app_label, database_sig, "None")
       IN  /\ calls' = Append(calls, [step |-> "mutate", app_label |-> app_label,
                                      index |-> mut_i, status |-> r.status])
           /\ IF r.status = "ok"
              THEN /\ sql' = Extended(sql, r.sql)
                   /\ StepDone("mutate")
                   /\ UNCHANGED <<exit_status, output>>
              ELSE /\ Exit("1", [kind |-> "traceback", error |-> r.status])
                   /\ UNCHANGED <<sql, mut_i>>
           /\ database_sig' = r.sig
    /\ UNCHANGED <<app_list, app_i, mutations, evolutions, evolution_required,
                   simulated, new_evolutions, diff, confirm, stmt_i,
                   database, committed>>
    /\ UNCHANGED inputVars

\* a variant that catches SimulationFailure where CannotSimulate is caught
HandlingFailureInLoop(status) ==
    CASE status = "ok"                -> "continue"
      [] status = "CannotSimulate"    -> "unverified"
      [] status = "SimulationFailure" -> "unverified"
      [] OTHER                        -> "crash"

\* a variant that catches CannotSimulate where SimulationFailure is caught
HandlingCannotSimulateOutside(status) ==
    CASE status = "ok"                -> "continue"
      [] status = "CannotSimulate"    -> "abort"
      [] status = "SimulationFailure" -> "abort"
      [] OTHER                        -> "crash"

\* lines 89-92 and 115-117: what the run does with the outcome of simulate:
\* CannotSimulate is caught inside the loop, SimulationFailure around it,
\* anything else nowhere
Handling(status) ==
    CASE status = "ok"                -> "continue"
      [] status = "CannotSimulate"    -> "unverified"
      [] status = "SimulationFailure" -> "abort"
      [] OTHER                        -> "crash"

\* lines 89-92 and 115-117: mutation.simulate(app_label, database_sig)
SimulateStep ==
    /\ pc = "simulate"
    /\ LET app_label == app_list[app_i]
           o == Simulate(mutations[mut_i], app_label, database_sig, "None")
       IN  /\ calls' = Append(calls, [step |-> "simulate", app_label |-> app_label,
                                      index |-> mut_i, status |-> o.status])
           /\ database_sig' = o.sig
           /\ simulated' = IF Handling(o.status) = "unverified" THEN FALSE
                            ELSE simulated
           /\ IF Handling(o.status) \in {"continue", "unverified"}
              THEN /\ StepDone("simulate")
                   /\ UNCHANGED <<exit_status, output>>
              ELSE /\ Exit("1", IF Handling(o.status) = "abort"
                                THEN [kind |-> "Simulation failure"]
                                ELSE [kind |-> "traceback", error |-> o.status])
                   /\ UNCHANGED mut_i
    /\ UNCHANGED <<app_list, app_i, mutations, evolutions, evolution_required, sql,
                   new_evolutions, diff, confirm, stmt_i, database, committed>>
    /\ UNCHANGED inputVars

\* lines 93-110: the application's evolutions are noted and, unless the run
\* executes, its compiled SQL or its script is printed
ReportApplication ==
    /\ pc = "report"
    /\ LET app_label == app_list[app_i]
       IN  /\ new_evolutions' = new_evolutions \o
                  [i \in 1..Len(evolutions) |->
                      [app_label |-> app_label, label |-> evolutions[i]]]
           /\ output' =
                  IF options.execute THEN output
                  ELSE IF options.compile_sql
                  THEN Append(output, [kind |-> "sql", app_label |-> app_label,
                                       statements |-> sql])
                  ELSE Append(output, [kind |-> "script", app_label |-> app_label,
                                       mutations |-> mutations])
    /\ app_i' = app_i + 1
    /\ pc' = "app"
    /\ UNCHANGED <<app_list, mutations, mut_i, evolutions, evolution_required,
                   simulated, sql, database_sig, diff, confirm, stmt_i, database,
                   committed, exit_status, calls>>
    /\ UNCHANGED inputVars

\* a variant that verifies with the diff taken before the simulation
VerifyDiffStale(old_diff, sig, target) == old_diff

\* line 120: the diff the verification looks at is taken anew
VerifyDiff(old_diff, sig, target) == Diff(sig, target)

\* lines 119-126: the signatures must match at the end of the simulation
Verify ==
    /\ pc = "app"
    /\ app_i > Len(app_list)
    /\ IF simulated
       THEN /\ diff' = VerifyDiff(diff, database_sig, current_proj_sig)
            /\ IF ~IsEmpty(diff')
               THEN Exit("1", [kind |-> "Signatures do not match"])
               ELSE pc' = "decide" /\ UNCHANGED <<exit_status, output>>
       ELSE /\ output' = Append(output, [kind |-> "could not be simulated"])
            /\ pc' = "decide"
            /\ UNCHANGED <<diff, exit_status>>
    /\ UNCHANGED <<app_list, app_i, mutations, mut_i, evolutions, evolution_required,
                   simulated, sql, new_evolutions, database_sig, confirm, stmt_i,
                   database, committed, calls>>
    /\ UNCHANGED inputVars

\* a variant that executes whatever the options say
ExecutesAlways(opts) == TRUE

\* line 129: statements are executed only when --execute is given
Executes(opts) == opts.execute

\* lines 128-143 and 173-180: what the run goes on to do
Decide ==
    /\ pc = "decide"
    /\ IF evolution_required
       THEN IF Executes(options)
            THEN IF options.interactive
                 THEN pc' = "prompt" /\ UNCHANGED <<confirm, exit_status, output>>
                 ELSE /\ confirm' = "yes"
                      /\ pc' = "begin"
                      /\ UNCHANGED <<exit_status, output>>
            ELSE /\ IF ~options.compile_sql /\ simulated
                    THEN Exit("0", [kind |-> "Trial evolution successful"])
                    ELSE pc' = "done" /\ exit_status' = "0" /\ UNCHANGED output
                 /\ UNCHANGED confirm
       ELSE Exit("0", [kind |-> "No evolution required"]) /\ UNCHANGED confirm
    /\ UNCHANGED <<app_list, app_i, mutations, mut_i, evolutions, evolution_required,
                   simulated, sql, new_evolutions, database_sig, diff, stmt_i,
                   database, committed, calls>>
    /\ UNCHANGED inputVars

\* str.lower() on the answers the model types at the prompt
Lower(answer) == IF answer = "YES" THEN "yes" ELSE answer

\* a variant that takes every answer for consent
ProceedsWhateverAnswer(answer) == TRUE

\* line 143: the run goes on only when the answer is yes
Proceeds(answer) == Lower(answer) = "yes"

\* lines 133-141 and 171-172: the confirmation prompt
Prompt ==
    /\ pc = "prompt"
    /\ \E answer \in {"yes", "YES", "no", ""} :
          /\ confirm' = answer
          /\ IF Proceeds(answer)
             THEN pc' = "begin" /\ UNCHANGED <<exit_status, output>>
             ELSE Exit("0", [kind |-> "Evolution cancelled"])
    /\ UNCHANGED <<app_list, app_i, mutations, mut_i, evolutions, evolution_required,
                   simulated, sql, new_evolutions, database_sig, diff, stmt_i,
                   database, committed, calls>>
    /\ UNCHANGED inputVars

\* lines 146-149: the transaction begins
BeginTransaction ==
    /\ pc = "begin"
    /\ stmt_i' = 1
    /\ pc' = "execute"
    /\ UNCHANGED <<app_list, app_i, mutations, mut_i, evolutions, evolution_required,
                   simulated, sql, new_evolutions, database_sig, diff, confirm,
                   database, committed, output, exit_status, calls>>
    /\ UNCHANGED inputVars

\* lines 152-153: cursor.execute(statement) succeeds
ExecuteStatement ==
    /\ pc = "execute"
    /\ stmt_i <= Len(sql)
    /\ database' = [database EXCEPT !.statements = Append(@, sql[stmt_i])]
    /\ stmt_i' = stmt_i + 1
    /\ UNCHANGED <<pc, app_list, app_i, mutations, mut_i, evolutions,
                   evolution_required, simulated, sql, new_evolutions, database_sig,
                   diff, confirm, committed, output, exit_status, calls>>
    /\ UNCHANGED inputVars

\* lines 152-153 and 163: cursor.execute(statement) raises
StatementFails ==
    /\ pc = "execute"
    /\ stmt_i <= Len(sql)
    /\ pc' = "rollback"
    /\ UNCHANGED <<app_list, app_i, mutations, mut_i, evolutions, evolution_required,
                   simulated, sql, new_evolutions, database_sig, diff, confirm, stmt_i,
                   database, committed, output, exit_status, calls>>
    /\ UNCHANGED inputVars

\* a variant that saves the signature the simulation ended with
VersionSignatureSimulated(target_bytes, simulated_sig) == Pickle(simulated_sig)

\* lines 65 and 156: the new Version holds the signature of the models in
\* code, pickled before the loop
VersionSignature(target_bytes, simulated_sig) == target_bytes

\* lines 156-157: the new Version is saved
SaveVersion ==
    /\ pc = "execute"
    /\ stmt_i > Len(sql)
    /\ database' = [database EXCEPT !.versions =
                       Append(@, [signature |-> VersionSignature(current_signature,
                                                                  database_sig),
                                  when |-> Len(@) + 1])]
    /\ pc' = "save"
    /\ UNCHANGED <<app_list, app_i, mutations, mut_i, evolutions, evolution_required,
                   simulated, sql, new_evolutions, database_sig, diff, confirm, stmt_i,
                   committed, output, exit_status, calls>>
    /\ UNCHANGED inputVars

\* the Evolution rows saved so far in this transaction
SavedEvolutions == Len(database.evolutions) - Len(committed.evolutions)

\* a variant that links the Evolution to the Version before the new one
EvolutionRowOfOldVersion(evolution, version) ==
    [app_label |-> evolution.app_label, label |-> evolution.label,
     version |-> version - 1]

\* lines 158-160: the Evolution row, linked to the new Version
EvolutionRow(evolution, version) ==
    [app_label |-> evolution.app_label, label |-> evolution.label,
     version |-> version]

\* lines 158-160: the next Evolution is linked to the new Version and saved
SaveEvolution ==
    /\ pc = "save"
    /\ SavedEvolutions < Len(new_evolutions)
    /\ LET evolution == new_evolutions[SavedEvolutions + 1]
       IN  database' = [database EXCEPT !.evolutions =
                           Append(@, EvolutionRow(evolution, Len(database.versions)))]
    /\ UNCHANGED <<pc, app_list, app_i, mutations, mut_i, evolutions,
                   evolution_required, simulated, sql, new_evolutions, database_sig,
                   diff, confirm, stmt_i, committed, output, exit_status, calls>>
    /\ UNCHANGED inputVars

\* lines 156-160 and 163: saving a Version or an Evolution raises
SaveFails ==
    /\ \/ pc = "execute" /\ stmt_i > Len(sql)
       \/ pc = "save" /\ SavedEvolutions < Len(new_evolutions)
    /\ pc' = "rollback"
    /\ UNCHANGED <<app_list, app_i, mutations, mut_i, evolutions, evolution_required,
                   simulated, sql, new_evolutions, database_sig, diff, confirm, stmt_i,
                   database, committed, output, exit_status, calls>>
    /\ UNCHANGED inputVars

\* lines 162 and 167-170: transaction.commit()
Commit ==
    /\ pc = "save"
    /\ SavedEvolutions = Len(new_evolutions)
    /\ committed' = database
    /\ Exit("0", [kind |-> "Evolution successful"])
    /\ UNCHANGED <<app_list, app_i, mutations, mut_i, evolutions, evolution_required,
                   simulated, sql, new_evolutions, database_sig, diff, confirm, stmt_i,
                   database, calls>>
    /\ UNCHANGED inputVars

\* a variant whose rollback keeps what the transaction did
RolledBackKeeps(in_transaction, before_transaction) == in_transaction

\* line 164: transaction.rollback() undoes what the transaction did
RolledBack(in_transaction, before_transaction) == before_transaction

\* lines 163-166: transaction.rollback() and sys.exit(1)
Rollback ==
    /\ pc = "rollback"
    /\ database' = RolledBack(database, committed)
    /\ Exit("1", [kind |-> "Error applying evolution"])
    /\ UNCHANGED <<app_list, app_i, mutations, mut_i, evolutions, evolution_required,
                   simulated, sql, new_evolutions, database_sig, diff, confirm, stmt_i,
                   committed, calls>>
    /\ UNCHANGED inputVars

Next ==
    \/ ParseArguments
    \/ LoadBaseline
    \/ NextApplication
    \/ MutateStep
    \/ SimulateStep
    \/ ReportApplication
    \/ Verify
    \/ Decide
    \/ Prompt
    \/ BeginTransaction
    \/ ExecuteStatement
    \/ StatementFails
    \/ SaveVersion
    \/ SaveEvolution
    \/ SaveFails
    \/ Commit
    \/ Rollback

Spec == Init /\ [][Next]_vars

(***************************************************************************)
(* SpecRerun: the evolve command, run again after a run that committed     *)
(***************************************************************************)
\* the command is started again with --execute, with or without --hint, on
\* the history store the last run committed; the models in code and the
\* scripts are the same. handle starts from its first line: lines 47-65
Rerun ==
    /\ pc = "done"
    /\ exit_status = "0"
    /\ output # <<>>
    /\ output[Len(output)].kind = "Evolution successful"
    /\ Len(runs) < MaxRuns
    /\ \E hint \in BOOLEAN : options' = [options EXCEPT !.hint = hint]
    /\ runs' = Append(runs, [options |-> options, committed |-> committed])
    /\ pc' = "start"
    /\ app_list' = <<>>
    /\ app_i' = 0
    /\ mutations' = <<>>
    /\ mut_i' = 0
    /\ evolutions' = <<>>
    /\ evolution_required' = FALSE
    /\ simulated' = TRUE
    /\ sql' = <<>>
    /\ new_evolutions' = <<>>
    /\ database_sig' = EmptyDict
    /\ diff' = EmptyDict
    /\ confirm' = ""
    /\ stmt_i' = 0
    /\ output' = <<>>
    /\ exit_status' = "running"
    /\ calls' = <<>>
    /\ UNCHANGED <<app_labels, scripts, current_proj_sig, current_signature,
                   database, committed, last, steps, queue>>

SpecRerun == Init /\ [][Next \/ Rerun]_vars

-----------------------------------------------------------------------------
\* Properties of the evolve command (specification Spec)

\* a simulate call of the run that ended with the given status
SimulateEnded(status) ==
    \E i \in 1..Len(calls) : calls[i].step = "simulate" /\ calls[i].status = status

\* the history store and the schema are as they were before the run
Untouched == database = Baseline /\ committed = Baseline

\* C1: when a statement fails during execution, the whole transaction is
\* rolled back: afterwards none of the run's statements is applied and the
\* store holds no new Version and no new Evolution.
C1_FailedStatementRollsBack ==
    (pc = "done" /\ exit_status = "1" /\ stmt_i \in 1..Len(sql)) => Untouched

\* the second statement failed after the first one had been executed
C1_Witness ==
    /\ pc = "done"
    /\ exit_status = "1"
    /\ stmt_i = 2
    /\ Len(sql) >= 2
    /\ output[Len(output)].kind = "Error applying evolution"

\* C2: a simulation failure aborts the whole run before anything is written:
\* no statement is executed and no Version or Evolution is written, whatever
\* the options and however many applications were simulated before.
C2_SimulationFailureAborts ==
    SimulateEnded("SimulationFailure") =>
        /\ pc = "done"
        /\ exit_status = "1"
        /\ output[Len(output)].kind = "Simulation failure"
        /\ calls[Len(calls)].status = "SimulationFailure"
        /\ Untouched

\* execution was requested and an earlier application had been simulated
C2_Witness ==
    /\ SimulateEnded("SimulationFailure")
    /\ options.execute
    /\ app_i = 2
    /\ \E i \in 1..Len(calls) :
          /\ calls[i].step = "simulate"
          /\ calls[i].app_label = app_list[1]
          /\ calls[i].status = "ok"
    /\ sql # <<>>

\* C3: a run without --execute (a dry run) never touches the database: no
\* statement is executed and no Version or Evolution is written, however the
\* run ends.
C3_DryRunNeverTouchesDatabase == ~options.execute => Untouched

\* a dry run that found evolutions to apply and ended well
C3_Witness ==
    /\ ~options.execute
    /\ pc = "done"
    /\ exit_status = "0"
    /\ evolution_required
    /\ sql # <<>>

\* C4, as stated: a run in hint mode never touches the database, whatever the
\* other options are.
C4_HintNeverTouchesDatabase == options.hint => Untouched

\* C4, amended: a hint run without --execute never touches the database; a
\* hint run with --execute executes the hinted statements and saves a Version
\* of the target signature, but never an Evolution.
C4_HintTouchesOnlyWhenExecuting ==
    options.hint =>
        /\ ~options.execute => Untouched
        /\ database.evolutions = Baseline.evolutions
        /\ committed.evolutions = Baseline.evolutions
        /\ new_evolutions = <<>>
        /\ \A i \in 1..Len(committed.versions) :
              committed.versions[i].signature \in
                  {Pickle(BaseSig), current_signature}

\* a hint run with --execute committed the hinted statements while the
\* application had a stored evolution
C4_Witness ==
    /\ options.hint
    /\ options.execute
    /\ pc = "done"
    /\ exit_status = "0"
    /\ committed.statements # <<>>
    /\ Len(committed.versions) = 2
    /\ scripts["tests"] # <<>>

\* the simulation of every mutation succeeded, the loop is over, and the
\* simulated signature differs from the target
VerificationFails ==
    /\ simulated
    /\ app_list # <<>>
    /\ app_i > Len(app_list)
    /\ ~IsEmpty(Diff(database_sig, current_proj_sig))

\* C5: when every mutation was simulated and the simulated signature still
\* differs from the target, the run aborts: nothing is executed and nothing
\* is recorded in the history.
C5_MismatchAborts ==
    VerificationFails =>
        /\ pc \in {"app", "done"}
        /\ pc = "done" =>
              /\ exit_status = "1"
              /\ output[Len(output)].kind = "Signatures do not match"
        /\ Untouched

\* execution was requested, evolutions were found and simulated, and the
\* run ended on the mismatch
C5_Witness ==
    /\ VerificationFails
    /\ pc = "done"
    /\ options.execute
    /\ evolution_required
    /\ SimulateEnded("ok")

\* the kinds of message the run has printed
Printed == {output[i].kind : i \in 1..Len(output)}

\* C6: a mutation that cannot be simulated does not stop the run: the next
\* mutation, of the same or of the next application, is still processed, the
\* run is marked as not fully simulated, the check of the signatures is
\* skipped with a warning, and the run goes on to what the options ask for.
C6_CannotSimulateGoesOn ==
    /\ \A i \in 1..Len(calls) :
          (calls[i].step = "simulate" /\ calls[i].status = "CannotSimulate") =>
              /\ ~simulated
              /\ i = Len(calls) =>
                    \/ pc \in {"mutate", "report", "app", "decide", "prompt",
                               "begin", "execute", "save", "rollback"}
                    \/ pc = "done" /\ "could not be simulated" \in Printed
              /\ i < Len(calls) =>
                    /\ calls[i + 1].step = "mutate"
                    /\ \/ /\ calls[i + 1].app_label = calls[i].app_label
                          /\ calls[i + 1].index = calls[i].index + 1
                       \/ /\ calls[i + 1].app_label # calls[i].app_label
                          /\ calls[i + 1].index = 1
    /\ SimulateEnded("CannotSimulate") =>
          /\ "Signatures do not match" \notin Printed
          /\ pc \in {"decide", "prompt", "begin", "execute", "save", "rollback"}
                => "could not be simulated" \in Printed
          /\ pc = "report" => mut_i = Len(mutations)

\* after a mutation that could not be simulated, the next mutation of the
\* application and those of the next application were simulated, and the
\* statements were executed and committed
C6_Witness ==
    /\ \E i, j, k \in 1..Len(calls) :
          /\ i < j /\ j < k
          /\ calls[i].step = "simulate" /\ calls[i].status = "CannotSimulate"
          /\ calls[j].step = "simulate" /\ calls[j].app_label = calls[i].app_label
          /\ calls[k].step = "simulate" /\ calls[k].app_label # calls[i].app_label
    /\ pc = "done"
    /\ exit_status = "0"
    /\ committed.statements = sql
    /\ sql # <<>>
    /\ Len(committed.versions) = 2

-----------------------------------------------------------------------------
\* Properties of hinting (specification SpecHint)

\* the diff reports no added, deleted or changed field and no deleted model
NoFieldLevelDifference(d) ==
    /\ d.deleted_models = {}
    /\ \A p \in DOMAIN d.models :
          /\ DOMAIN d.models[p].added_fields = {}
          /\ d.models[p].deleted_fields = {}
          /\ DOMAIN d.models[p].changed_fields = {}

C8_DiffReflexive ==
    (database_sig = current_proj_sig /\ steps = 0) =>
        /\ IsEmpty(Diff(database_sig, current_proj_sig))
        /\ Evolution(Diff(database_sig, current_proj_sig)) = EmptyDict
        /\ pc \in {"hint", "simulating", "simulated"}
        /\ queue = <<>>

\* the hint of a signature with itself was generated; its model has
\* attributes given explicitly and a uniqueness constraint
C8_Witness ==
    /\ database_sig = current_proj_sig
    /\ pc = "simulated"
    /\ steps = 0
    /\ "age" \in DOMAIN database_sig["tests"]["TestModel"].fields
    /\ database_sig["tests"]["TestModel"].fields["age"] = IntegerNotNull
    /\ database_sig["tests"]["TestModel"].meta.unique_together # <<>>
    /\ "Anchor" \in DOMAIN database_sig["other"]

-----------------------------------------------------------------------------
\* Properties of single simulate steps (specification SpecSim)

\* the last call was this kind of mutation on a model of the signature
LastOnModel(variant) ==
    /\ last.status # "none"
    /\ last.mutation.variant = variant
    /\ HasModel(last.before, last.app_label, last.mutation.model_name)

\* the fields of the model the last call named, before and after the call
FieldsBefore == last.before[last.app_label][last.mutation.model_name].fields
FieldsAfter == database_sig[last.app_label][last.mutation.model_name].fields

\* C9: DeleteField.simulate on the primary key of its model fails with
\* SimulationFailure, and the field remains in the model.
C9_DeletePrimaryKeyFails ==
    (/\ LastOnModel("DeleteField")
     /\ last.mutation.field_name \in DOMAIN FieldsBefore
     /\ Get(FieldsBefore[last.mutation.field_name], "primary_key", "False") = "True")
    => /\ last.status = "SimulationFailure"
       /\ FieldsAfter = FieldsBefore

\* the primary key deleted is a CharField that a uniqueness constraint names
C9_Witness ==
    /\ LastOnModel("DeleteField")
    /\ last.mutation.field_name = "name"
    /\ FieldsBefore["name"] = Update(Char20, [primary_key |-> "True"])
    /\ last.status = "SimulationFailure"

\* the last call added a field that is not many-to-many
LastAddsPlainField ==
    /\ last.status # "none"
    /\ last.mutation.variant = "AddField"
    /\ last.mutation.field_type # ManyToManyField

\* the added field is nullable, or comes with an initial value
NullableOrInitial ==
    \/ Get(last.mutation.field_attrs, "null", "False") = "True"
    \/ last.mutation.initial # "None"

\* the call inserted the field with the given kind and attributes and left
\* the other fields alone
Inserted ==
    /\ last.status = "ok"
    /\ HasModel(database_sig, last.app_label, last.mutation.model_name)
    /\ FieldsAfter =
          Put(FieldsBefore, last.mutation.field_name,
              Update([field_type |-> last.mutation.field_type],
                     last.mutation.field_attrs))

\* C10, as stated: adding a non-many-to-many field that is not nullable and
\* has no initial value fails with SimulationFailure; adding the same field
\* nullable or with an initial value always succeeds and inserts it.
C10_AddFieldAlways ==
    LastAddsPlainField =>
        IF NullableOrInitial
        THEN Inserted
        ELSE last.status = "SimulationFailure"

\* C10, amended: on a model of the signature, adding a non-many-to-many field
\* that is not nullable and has no initial value fails with SimulationFailure;
\* adding the same field nullable or with an initial value succeeds exactly
\* when the model has no field of that name, and then inserts it with the
\* given kind and attributes; when the model has one, it fails with
\* SimulationFailure.  On a model the signature lacks the call raises
\* KeyError.  A call that fails leaves the signature as it was.
C10_AddFieldOnModel ==
    LastAddsPlainField =>
        IF ~HasModel(last.before, last.app_label, last.mutation.model_name)
        THEN last.status = "KeyError" /\ database_sig = last.before
        ELSE IF NullableOrInitial /\ last.mutation.field_name \notin DOMAIN FieldsBefore
        THEN Inserted
        ELSE last.status = "SimulationFailure" /\ database_sig = last.before

\* a field that is not nullable is inserted with its initial value given
C10_Witness ==
    /\ LastAddsPlainField
    /\ Inserted
    /\ last.mutation.field_name = "ref"
    /\ last.mutation.initial # "None"
    /\ last.mutation.field_attrs = [null |-> "False"]

\* C11: AddField.simulate of a field name the model already has fails with
\* SimulationFailure, whatever the kind, the nullability and the initial value
\* are, and leaves the signature, the existing field's included, as it was.
C11_AddExistingFieldFails ==
    (/\ LastOnModel("AddField")
     /\ last.mutation.field_name \in DOMAIN FieldsBefore)
    => /\ last.status = "SimulationFailure"
       /\ FieldsAfter[last.mutation.field_name]
             = FieldsBefore[last.mutation.field_name]
       /\ database_sig = last.before

\* a nullable field with an initial value is added under the name of an
\* existing field
C11_Witness ==
    /\ LastOnModel("AddField")
    /\ last.mutation.field_name = "name"
    /\ "name" \in DOMAIN FieldsBefore
    /\ last.mutation.initial = "1"
    /\ Get(last.mutation.field_attrs, "null", "False") = "True"
    /\ last.status = "SimulationFailure"

\* the last call named a model the signature lacks
LastOnUnknownModel ==
    /\ last.status # "none"
    /\ last.mutation.variant \in {"DeleteField", "RenameField", "ChangeField",
                                  "DeleteModel"}
    /\ ~HasModel(last.before, last.app_label, last.mutation.model_name)

\* the last call named a field its model lacks
LastOnUnknownField ==
    \/ /\ LastOnModel("DeleteField")
       /\ last.mutation.field_name \notin DOMAIN FieldsBefore
    \/ /\ LastOnModel("ChangeField")
       /\ last.mutation.field_name \notin DOMAIN FieldsBefore
    \/ /\ LastOnModel("RenameField")
       /\ last.mutation.old_field_name \notin DOMAIN FieldsBefore

\* C12, as stated: the simulate step of a mutation that names a model or a
\* field the signature lacks fails with SimulationFailure and with no other
\* kind of error.
C12_UnknownReferenceFails ==
    (LastOnUnknownModel \/ LastOnUnknownField) => last.status = "SimulationFailure"

-----------------------------------------------------------------------------
\* Further properties of the evolve command (specification Spec)

\* the Versions a store holds beyond the baseline's
NewVersions(db) == SubSeq(db.versions, Len(Baseline.versions) + 1, Len(db.versions))

\* C13, as stated: the Version a successful execute run persists holds the
\* signature the simulation of the run's mutations ended with, also when a
\* mutation could not be simulated.
C13_VersionHoldsSimulated ==
    \A i \in 1..Len(NewVersions(committed)) :
        NewVersions(committed)[i].signature = Pickle(database_sig)

\* C13, amended: the Version an execute run persists holds the pickled
\* signature of the models in code, taken before the mutations are collected;
\* in a fully simulated run the simulated signature has an empty diff with it,
\* in a run with a mutation that could not be simulated it need not.
C13_VersionHoldsTarget ==
    /\ \A i \in 1..Len(NewVersions(database)) :
          /\ NewVersions(database)[i].signature = Pickle(current_proj_sig)
          /\ simulated => IsEmpty(Diff(database_sig, current_proj_sig))
    /\ \A i \in 1..Len(NewVersions(committed)) :
          NewVersions(committed)[i].signature = Pickle(current_proj_sig)

\* a run with a mutation that could not be simulated committed a Version
\* that differs from the simulated signature
C13_Witness ==
    /\ pc = "done"
    /\ exit_status = "0"
    /\ Len(NewVersions(committed)) = 1
    /\ ~simulated
    /\ ~IsEmpty(Diff(database_sig, current_proj_sig))
    /\ committed.versions[2].signature # Pickle(database_sig)

\* the labels of an application's scripts that the baseline has no Evolution of
PendingLabels(app_label) ==
    LET applied == {Baseline.evolutions[i].label :
                       i \in {j \in 1..Len(Baseline.evolutions) :
                                 Baseline.evolutions[j].app_label = app_label}}
        pending == SelectSeq(scripts[app_label], LAMBDA e : e.label \notin applied)
    IN  [i \in 1..Len(pending) |->
            [app_label |-> app_label, label |-> pending[i].label,
             version |-> Len(Baseline.versions) + 1]]

\* the Evolution rows an execute run is to write: none in hint mode, else one
\* per pending label of every application, linked to the new Version
ExpectedEvolutions ==
    IF options.hint THEN <<>>
    ELSE PendingLabels(InstalledApps[1]) \o PendingLabels(InstalledApps[2])

\* the store holds the baseline's rows unchanged, followed by at most one
\* new Version
KeepsBaselineRows(db) ==
    /\ Len(db.versions) \in {Len(Baseline.versions), Len(Baseline.versions) + 1}
    /\ SubSeq(db.versions, 1, Len(Baseline.versions)) = Baseline.versions
    /\ Len(db.evolutions) >= Len(Baseline.evolutions)
    /\ SubSeq(db.evolutions, 1, Len(Baseline.evolutions)) = Baseline.evolutions

\* C14: Version and Evolution rows are created only by a successful,
\* committed execute run, which creates exactly one Version and one Evolution
\* per script label applied, of every application, each linked to the new
\* Version; the rows that exist are never changed or deleted.
C14_HistoryRows ==
    /\ KeepsBaselineRows(database)
    /\ KeepsBaselineRows(committed)
    /\ committed # Baseline =>
          /\ pc = "done"
          /\ exit_status = "0"
          /\ options.execute
          /\ app_list = InstalledApps
          /\ Len(NewVersions(committed)) = 1
          /\ committed.evolutions = Baseline.evolutions \o ExpectedEvolutions
    /\ pc = "done" => database = committed

\* a committed run wrote one Evolution for each of the two applications and
\* none for the script the baseline had applied
C14_Witness ==
    /\ committed # Baseline
    /\ Len(committed.evolutions) = Len(Baseline.evolutions) + 2
    /\ Len(scripts["other"]) = 2
    /\ committed.evolutions[3].app_label = "other"
    /\ committed.evolutions[3].version = 2

\* C15: statements are executed only after consent: only in an execute run
\* that is non-interactive or whose prompt was answered yes; when the prompt
\* is answered otherwise nothing is executed, nothing is rolled back and no
\* history is written.
C15_ConsentBeforeExecution ==
    /\ (database # Baseline \/ stmt_i > 0) =>
          /\ options.execute
          /\ confirm \in {"yes", "YES"}
          /\ ~options.interactive => confirm = "yes"
    /\ "Evolution cancelled" \in Printed =>
          /\ options.interactive
          /\ confirm \notin {"yes", "YES"}
          /\ pc = "done"
          /\ stmt_i = 0
          /\ Untouched
          /\ "Error applying evolution" \notin Printed
    /\ ~options.interactive => pc # "prompt"

\* the prompt of a run with statements to execute was answered no
C15_Witness ==
    /\ "Evolution cancelled" \in Printed
    /\ confirm = "no"
    /\ sql # <<>>
    /\ new_evolutions # <<>>

\* C16, as stated: the run ends with a non-zero status when the user cancels
\* at the prompt, as on a simulation, verification or execution failure, and
\* with status 0 only on success or when there was nothing to do.
C16_CancelExitsNonZero ==
    pc = "done" =>
        /\ (Printed \cap {"Evolution cancelled", "Simulation failure",
                          "Signatures do not match", "Error applying evolution"} # {})
              => exit_status # "0"
        /\ exit_status = "0" => "Evolution cancelled" \notin Printed

\* C17: a run that asks for execution and names applications is rejected
\* before any mutation is collected, simulated or executed; statements are
\* only ever executed in a run over all the installed applications.
C17_ExecuteTakesNoLabels ==
    /\ (options.execute /\ app_labels # <<>>) =>
          /\ pc \in {"start", "done"}
          /\ pc = "done" => exit_status = "1" /\ output = << [kind |-> "CommandError"] >>
          /\ calls = <<>>
          /\ mutations = <<>>
          /\ sql = <<>>
          /\ Untouched
    /\ (database # Baseline \/ stmt_i > 0) =>
          app_labels = <<>> /\ app_list = InstalledApps

\* the rejected run named an application that has a script to apply
C17_Witness ==
    /\ options.execute
    /\ app_labels = <<"tests">>
    /\ scripts["tests"] # <<>>
    /\ pc = "done"
    /\ exit_status = "1"

\* C19, as stated: the simulate step of every mutation is called before its
\* mutate step.
C19_SimulateBeforeMutate ==
    \A i \in 1..Len(calls) :
        calls[i].step = "mutate" =>
            \E j \in 1..(i - 1) :
                /\ calls[j].step = "simulate"
                /\ calls[j].app_label = calls[i].app_label
                /\ calls[j].index = calls[i].index

\* C19, amended: the mutate step of every mutation is called first and its
\* simulate step right after it; a mutation whose mutate step raised is not
\* simulated.
C19_MutateBeforeSimulate ==
    \A i \in 1..Len(calls) :
        /\ calls[i].step = "simulate" =>
              /\ i > 1
              /\ calls[i - 1].step = "mutate"
              /\ calls[i - 1].status = "ok"
              /\ calls[i - 1].app_label = calls[i].app_label
              /\ calls[i - 1].index = calls[i].index
        /\ calls[i].step = "mutate" =>
              /\ \A j \in 1..(i - 1) :
                    ~(/\ calls[j].step = "simulate"
                      /\ calls[j].app_label = calls[i].app_label
                      /\ calls[j].index = calls[i].index)
              /\ (calls[i].status # "ok") => i = Len(calls)

\* the second mutation of an application went through both steps
C19_Witness ==
    /\ Len(calls) >= 4
    /\ calls[3].step = "mutate" /\ calls[3].index = 2
    /\ calls[4].step = "simulate" /\ calls[4].index = 2

\* C20, as stated: no script and no list of statements is reported for any
\* application unless every mutation of every application of the run was
\* simulated without SimulationFailure and the verification was done.
C20_ReportAfterVerification ==
    (Printed \cap {"script", "sql"} # {}) =>
        /\ app_i > Len(app_list)
        /\ pc \in {"decide", "done"}
        /\ ~SimulateEnded("SimulationFailure")
        /\ "Signatures do not match" \notin Printed

-----------------------------------------------------------------------------
\* Properties of the mutate steps (specification SpecMut)

\* the model the last mutate call was made on has a field that names a
\* related model
LastOnRelatedModel ==
    /\ last.mutation.variant \in {"AddField", "DeleteField", "RenameField",
                                  "ChangeField", "DeleteModel"}
    /\ HasModel(last.before, last.app_label, last.mutation.model_name)
    /\ \E f \in DOMAIN last.before[last.app_label][last.mutation.model_name].fields :
          "related_model" \in
              DOMAIN last.before[last.app_label][last.mutation.model_name].fields[f]

\* C18: the mutate step of every mutation variant leaves the signature it
\* is given unchanged: the signature after mutate returns equals the
\* signature before the call.
C18_MutateLeavesSignature ==
    (pc = "mutate" /\ last.status = "ok") => database_sig = last.before

\* a DeleteField of a field that names a related model returned its
\* statements, the field's type and related model were taken out and put back
C18_Witness ==
    /\ pc = "mutate"
    /\ last.status = "ok"
    /\ last.mutation.variant = "DeleteField"
    /\ last.mutation.field_name = "ref"
    /\ LastOnRelatedModel
    /\ last.sql # <<>>
    /\ database_sig = last.before

-----------------------------------------------------------------------------
\* Further properties of single simulate steps (specification SpecSim)

\* the last simulate call was a DeleteApplication on an application of the
\* signature
LastDeletesApplication ==
    /\ pc = "simulate"
    /\ last.status # "none"
    /\ last.mutation.variant = "DeleteApplication"
    /\ last.app_label \in DOMAIN last.before

\* C21, as stated: DeleteApplication.simulate removes every model of the
\* application that the targeted store owns (every model, as no routing is
\* in play) and leaves the other applications unchanged, also when it is
\* called without a database as the evolve command calls it.
C21_DeleteApplicationRemovesModels ==
    LastDeletesApplication =>
        /\ last.status = "ok"
        /\ DOMAIN database_sig = DOMAIN last.before
        /\ DOMAIN database_sig[last.app_label] = {}
        /\ \A a \in DOMAIN last.before \ {last.app_label} :
              database_sig[a] = last.before[a]

\* the last simulate call was an SQLMutation
LastIsRaw ==
    /\ pc = "simulate"
    /\ last.status # "none"
    /\ last.mutation.variant = "SQLMutation"

\* C22: SQLMutation.simulate fails with CannotSimulate exactly when no update
\* function was given; with one it succeeds and the signature is changed
\* exactly as the function changes it.
C22_RawSimulate ==
    LastIsRaw =>
        /\ last.status = "CannotSimulate" <=> ~last.mutation.update_func.callable
        /\ last.status = "CannotSimulate" => database_sig = last.before
        /\ last.mutation.update_func.callable =>
              /\ last.status = "ok"
              /\ database_sig =
                     [last.before EXCEPT ![last.app_label] =
                          Pop(@, last.mutation.update_func.drops)]

\* an update function that drops a model was given and has changed the
\* signature
C22_Witness ==
    /\ LastIsRaw
    /\ last.mutation.update_func.callable
    /\ last.status = "ok"
    /\ database_sig # last.before
    /\ "TestModel" \notin DOMAIN database_sig["tests"]

-----------------------------------------------------------------------------
\* Further properties of the mutate steps (specification SpecMut)

\* the last mutate call was a ChangeField on a field of the signature
LastChangesField ==
    /\ pc = "mutate"
    /\ last.status # "none"
    /\ last.mutation.variant = "ChangeField"
    /\ HasModel(last.before, last.app_label, last.mutation.model_name)
    /\ last.mutation.field_name \in DOMAIN FieldsBefore

\* the attributes requested that the backend has no change operation for
RequestedWithoutOperation ==
    DOMAIN last.mutation.field_attrs
        \ {"null", "max_length", "db_column", "db_table", "unique", "db_index"}

\* C23, as stated: ChangeField.mutate ends with EvolutionNotImplementedError
\* for every requested attribute that has no backend change operation,
\* whatever its current and requested values.
C23_UnsupportedAlwaysFatal ==
    (LastChangesField /\ RequestedWithoutOperation # {}) =>
        last.status = "EvolutionNotImplementedError"

\* C23, amended: with every requested attribute having a declared default
\* and the model's mock built, ChangeField.mutate ends with
\* EvolutionNotImplementedError exactly when some requested attribute
\* without a backend operation has a requested value that differs from the
\* field's current one (its default when absent); an attribute whose
\* requested value equals the current one is skipped, with or without a
\* backend operation, and gives no statement.
C23_UnsupportedFatalWhenChanged ==
    (/\ LastChangesField
     /\ DOMAIN last.mutation.field_attrs \subseteq DOMAIN ATTRIBUTE_DEFAULTS
     /\ last.status # "KeyError")
    => LET current(a) == Get(FieldsBefore[last.mutation.field_name], a,
                             ATTRIBUTE_DEFAULTS[a])
           changed == {a \in DOMAIN last.mutation.field_attrs :
                          current(a) # last.mutation.field_attrs[a]}
       IN  /\ last.status = "EvolutionNotImplementedError"
                 <=> changed \cap RequestedWithoutOperation # {}
           /\ last.status \in {"ok", "EvolutionNotImplementedError"}
           /\ last.status = "ok" => Len(last.sql) = Cardinality(changed)

\* primary_key=True was requested for the field that is the primary key:
\* the attribute has no backend operation and the call returned no statement
C23_Witness ==
    /\ LastChangesField
    /\ last.mutation.field_attrs = [primary_key |-> "True"]
    /\ Get(FieldsBefore[last.mutation.field_name], "primary_key", "False") = "True"
    /\ last.status = "ok"
    /\ last.sql = <<>>

-----------------------------------------------------------------------------
\* The primary key of a model (specification SpecSim)

\* the fields of a model signature that have primary_key set
PrimaryKeys(model_sig) ==
    {f \in DOMAIN model_sig.fields :
        Truthy(Get(model_sig.fields[f], "primary_key", "False"))}

\* every model of the signature has exactly one primary key
OnePrimaryKeyEach(proj_sig) ==
    \A a \in DOMAIN proj_sig : \A mn \in DOMAIN proj_sig[a] :
        Cardinality(PrimaryKeys(proj_sig[a][mn])) = 1

\* C24, as stated: a successfully simulated AddField, DeleteField,
\* RenameField or ChangeField takes a signature in which every model has
\* exactly one primary key to a signature in which every model has exactly
\* one primary key.
C24_SinglePrimaryKey ==
    (/\ pc = "simulate"
     /\ last.status = "ok"
     /\ last.mutation.variant \in {"AddField", "DeleteField", "RenameField",
                                   "ChangeField"}
     /\ OnePrimaryKeyEach(last.before))
    => OnePrimaryKeyEach(database_sig)

-----------------------------------------------------------------------------
\* Further properties of the Differ and the Hint Generator (specification
\* SpecHint)

\* the hint was generated and none of its mutations is simulated yet:
\* database_sig is the old signature and queue holds the whole hint
HintJustGenerated == pc = "simulating" /\ steps = 0

\* the fields of TestModel in the old and in the new signature
OldFields == database_sig["tests"]["TestModel"].fields
NewFields == current_proj_sig["tests"]["TestModel"].fields

\* the positions in the hint of the mutations of this kind for this field of
\* TestModel
HintedAt(variant, field_name) ==
    {i \in 1..Len(queue) :
        /\ queue[i].app_label = "tests"
        /\ queue[i].mutation.variant = variant
        /\ queue[i].mutation.model_name = "TestModel"
        /\ queue[i].mutation.field_name = field_name}

\* the positions in the hint of the mutations of this kind
HintedKind(variant) == {i \in 1..Len(queue) : queue[i].mutation.variant = variant}

\* a field of the old model went and a field with the same signature came
\* under another name
ReplacedBy(old_name, new_name) ==
    /\ old_name \in DOMAIN OldFields \ DOMAIN NewFields
    /\ new_name \in DOMAIN NewFields \ DOMAIN OldFields
    /\ OldFields[old_name] = NewFields[new_name]

\* C25: a rename is never inferred: for a field replaced by a field of the
\* same kind and attributes under another name the hint has exactly one
\* AddField of the new name, followed by exactly one DeleteField of the old
\* name, and the hint never has a RenameField.
C25_RenameNeverInferred ==
    HintJustGenerated =>
        /\ HintedKind("RenameField") = {}
        /\ \A old_name \in DOMAIN OldFields, new_name \in DOMAIN NewFields :
              ReplacedBy(old_name, new_name) =>
                  /\ Cardinality(HintedAt("AddField", new_name)) = 1
                  /\ Cardinality(HintedAt("DeleteField", old_name)) = 1
                  /\ \A i \in HintedAt("AddField", new_name),
                        j \in HintedAt("DeleteField", old_name) : i < j

\* name, a CharField of 20, was replaced by ref, a CharField of 20; the hint
\* is the AddField of ref and the DeleteField of name
C25_Witness ==
    /\ HintJustGenerated
    /\ ReplacedBy("name", "ref")
    /\ NewFields["ref"] = Char20
    /\ Len(queue) = 2
    /\ queue[1].mutation.variant = "AddField"
    /\ queue[1].mutation.field_name = "ref"
    /\ queue[2].mutation = DeleteField("TestModel", "name")

\* the attributes whose values, stated or declared as default, differ
\* between the old and the new signature of a field of both models
Differing(field_name) ==
    {a \in DOMAIN OldFields[field_name] \cup DOMAIN NewFields[field_name] :
        Get(OldFields[field_name], a, Get(ATTRIBUTE_DEFAULTS, a, "None"))
            # Get(NewFields[field_name], a, Get(ATTRIBUTE_DEFAULTS, a, "None"))}

\* C26: for every field of both signatures the hint has exactly one
\* ChangeField when one or more of its attributes changed, carrying exactly
\* the changed attributes with their new values, and none when no attribute
\* changed.
C26_OneChangePerField ==
    HintJustGenerated =>
        \A f \in DOMAIN OldFields \cap DOMAIN NewFields :
            /\ Cardinality(HintedAt("ChangeField", f))
                  = (IF Differing(f) = {} THEN 0 ELSE 1)
            /\ \A i \in HintedAt("ChangeField", f) :
                  /\ DOMAIN queue[i].mutation.field_attrs = Differing(f)
                  /\ \A a \in Differing(f) :
                        queue[i].mutation.field_attrs[a]
                            = Get(NewFields[f], a, Get(ATTRIBUTE_DEFAULTS, a, "None"))

\* the width and the nullability of name changed and age did not change:
\* the hint is one ChangeField of name with both attributes
C26_Witness ==
    /\ HintJustGenerated
    /\ {"name", "age"} \subseteq DOMAIN OldFields \cap DOMAIN NewFields
    /\ OldFields["name"] = Char20
    /\ NewFields["name"] = Char30Null
    /\ Differing("age") = {}
    /\ Cardinality(HintedKind("ChangeField")) = 1
    /\ \E i \in HintedAt("ChangeField", "name") :
          queue[i].mutation.field_attrs = [max_length |-> "30", null |-> "True"]

\* a field signature without the attributes it states at their declared
\* default
WithoutDefaults(field_sig) ==
    [a \in {b \in DOMAIN field_sig :
               b \in DOMAIN ATTRIBUTE_DEFAULTS => field_sig[b] # ATTRIBUTE_DEFAULTS[b]}
        |-> field_sig[a]]

\* a signature with every field signature stripped of its stated defaults
StatedDefaultsDropped(proj_sig) ==
    [a \in DOMAIN proj_sig |->
        [mn \in DOMAIN proj_sig[a] |->
            [proj_sig[a][mn] EXCEPT !.fields =
                [f \in DOMAIN @ |-> WithoutDefaults(@[f])]]]]

\* the old and the new signature differ, and only in attributes that one of
\* them states at the declared default and the other omits
DifferOnlyByStatedDefaults ==
    /\ steps = 0
    /\ database_sig # current_proj_sig
    /\ StatedDefaultsDropped(database_sig) = StatedDefaultsDropped(current_proj_sig)

\* C27: the Differ takes an absent attribute for its declared default: two
\* signatures that differ only in that one states an attribute at its default
\* and the other omits it have an empty diff, and no mutation is hinted.
C27_AbsentIsDefault ==
    DifferOnlyByStatedDefaults =>
        /\ IsEmpty(Diff(database_sig, current_proj_sig))
        /\ Evolution(Diff(database_sig, current_proj_sig)) = EmptyDict
        /\ queue = <<>>

\* age is an IntegerField in one signature and an IntegerField with
\* null=False in the other, and the hint generated for the two is empty
C27_Witness ==
    /\ DifferOnlyByStatedDefaults
    /\ pc = "simulated"
    /\ "age" \in DOMAIN OldFields \cap DOMAIN NewFields
    /\ OldFields["age"] = IntegerSig
    /\ NewFields["age"] = IntegerNotNull
    /\ queue = <<>>

\* the place of a kind of mutation in the hint of a model
HintRank(variant) ==
    CASE variant = "AddField"    -> 1
      [] variant = "DeleteField" -> 2
      [] variant = "ChangeField" -> 3
      [] OTHER                   -> 4

\* C28: in the hint of a model every AddField comes before every DeleteField
\* and every DeleteField before every ChangeField, with one AddField per
\* added field and one DeleteField per deleted field.
C28_AddsDeletesChanges ==
    HintJustGenerated =>
        /\ \A i, j \in 1..Len(queue) :
              (/\ i < j
               /\ queue[i].app_label = queue[j].app_label
               /\ queue[i].mutation.variant \in {"AddField", "DeleteField", "ChangeField"}
               /\ queue[j].mutation.variant \in {"AddField", "DeleteField", "ChangeField"}
               /\ queue[i].mutation.model_name = queue[j].mutation.model_name)
              => HintRank(queue[i].mutation.variant) <= HintRank(queue[j].mutation.variant)
        /\ \A f \in DOMAIN OldFields \cup DOMAIN NewFields :
              /\ Cardinality(HintedAt("AddField", f))
                    = (IF f \in DOMAIN NewFields \ DOMAIN OldFields THEN 1 ELSE 0)
              /\ Cardinality(HintedAt("DeleteField", f))
                    = (IF f \in DOMAIN OldFields \ DOMAIN NewFields THEN 1 ELSE 0)

\* a field came, a field went and a field changed: the hint of TestModel is
\* an AddField, a DeleteField and a ChangeField, in this order
C28_Witness ==
    /\ HintJustGenerated
    /\ Len(queue) >= 3
    /\ queue[1].mutation.variant = "AddField"
    /\ queue[2].mutation.variant = "DeleteField"
    /\ queue[3].mutation.variant = "ChangeField"
    /\ queue[1].mutation.model_name = "TestModel"
    /\ queue[3].mutation.model_name = "TestModel"

-----------------------------------------------------------------------------
\* Properties of a run after a run that committed (specification SpecRerun)

\* the run follows a run that executed and committed
InRerun == runs # <<>>

\* the history store the run before this one committed
CommittedBefore == runs[Len(runs)].committed

\* C29: safe re-run: an execute run after a committed execute run, with the
\* same models and scripts, finds no unapplied evolution and no difference,
\* executes no statement and saves no Version and no Evolution.
C29_SafeRerun ==
    InRerun =>
        /\ evolutions = <<>>
        /\ new_evolutions = <<>>
        /\ mutations = <<>>
        /\ sql = <<>>
        /\ pc \notin {"start", "load"} => IsEmpty(diff)
        /\ pc \notin {"mutate", "simulate", "prompt", "begin", "execute", "save",
                      "rollback"}
        /\ database = CommittedBefore
        /\ committed = CommittedBefore
        /\ exit_status \in {"running", "0"}

-----------------------------------------------------------------------------
\* The execution of the statements (specification Spec)

\* the mutations a run takes for an application: the hinted ones in hint
\* mode, else the ones of the scripts the baseline has no Evolution of
PendingMutations(app_label) ==
    IF options.hint
    THEN Get(Evolution(Diff(Unpickle(Baseline.versions[1].signature),
                            current_proj_sig)), app_label, <<>>)
    ELSE LET labels == {PendingLabels(app_label)[i].label :
                           i \in 1..Len(PendingLabels(app_label))}
             pending == SelectSeq(scripts[app_label], LAMBDA e : e.label \in labels)
         IN  Concat([i \in 1..Len(pending) |-> pending[i].mutations])

\* the mutations of a run over all applications, in the order of the
\* applications and, for each, in the order of its list
RunMutations ==
    Concat([i \in 1..Len(InstalledApps) |->
               [k \in 1..Len(PendingMutations(InstalledApps[i])) |->
                   [app_label |-> InstalledApps[i],
                    mutation  |-> PendingMutations(InstalledApps[i])[k]]]])

\* the statements mutate returns for these mutations, one mutation after the
\* other, each on the signature the ones before it left
RECURSIVE StatementsOf(_, _)
StatementsOf(todo, sig) ==
    IF todo = <<>> THEN <<>>
    ELSE With(Mutate(Head(todo).mutation, Head(todo).app_label, sig, "None"),
              LAMBDA r :
                  With(Simulate(Head(todo).mutation, Head(todo).app_label, r.sig,
                                "None"),
                       LAMBDA o : r.sql \o StatementsOf(Tail(todo), o.sig)))

\* the run is in its transaction or has committed it
Executing == pc \in {"execute", "save"} \/ committed # Baseline

\* C30: in a confirmed execute run the accumulated statements are executed
\* once each, in the order they were accumulated in (applications in list
\* order, the mutations of each in list order, the statements of each in the
\* order mutate returned them), in one transaction; the Version and the
\* Evolutions are saved after the last statement and before the commit.
C30_ExecutedOnceInOrder ==
    /\ Executing =>
          /\ sql = StatementsOf(RunMutations, Unpickle(Baseline.versions[1].signature))
          /\ Baseline.statements = <<>>
    /\ pc = "execute" =>
          /\ stmt_i \in 1..(Len(sql) + 1)
          /\ database.statements = SubSeq(sql, 1, stmt_i - 1)
          /\ database.versions = Baseline.versions
          /\ database.evolutions = Baseline.evolutions
          /\ committed = Baseline
    /\ pc = "save" =>
          /\ database.statements = sql
          /\ Len(NewVersions(database)) = 1
          /\ committed = Baseline
    /\ committed # Baseline =>
          /\ pc = "done"
          /\ committed = database
          /\ committed.statements = sql
          /\ Len(NewVersions(committed)) = 1
    /\ pc = "rollback" => committed = Baseline
    /\ database # committed => pc \in {"execute", "save", "rollback"}

\* a run committed the three statements of two mutations of one application
\* and the statement of a mutation of the other, and an Evolution for each
C30_Witness ==
    /\ pc = "done"
    /\ committed # Baseline
    /\ Len(sql) = 4
    /\ committed.statements = sql
    /\ sql[3][1] = "delete_column"
    /\ Len(RunMutations) = 3
    /\ Len(committed.evolutions) = Len(Baseline.evolutions) + 2

-----------------------------------------------------------------------------
\* The effect of single simulate steps (specification SpecSim)

\* the model the last call named, before and after the call
ModelBefore == last.before[last.app_label][last.mutation.model_name]
ModelAfter == database_sig[last.app_label][last.mutation.model_name]

\* every model but the one the last call named is as it was before the call
OtherModelsKept ==
    /\ DOMAIN database_sig = DOMAIN last.before
    /\ \A a \in DOMAIN database_sig :
          /\ DOMAIN database_sig[a] = DOMAIN last.before[a]
          /\ \A mn \in DOMAIN database_sig[a] :
                (a # last.app_label \/ mn # last.mutation.model_name)
                => database_sig[a][mn] = last.before[a][mn]

\* every field of the model but the ones named is as it was before the call
OtherFieldsKept(names) ==
    /\ DOMAIN FieldsAfter \ names = DOMAIN FieldsBefore \ names
    /\ \A f \in DOMAIN FieldsAfter \ names : FieldsAfter[f] = FieldsBefore[f]

\* C31: a successful DeleteField.simulate removes exactly the named field
\* from the model and its name from every unique_together tuple; the other
\* fields, the other members of each tuple and their order, and every other
\* model and application are unchanged.
C31_DeleteFieldEffect ==
    (LastOnModel("DeleteField") /\ last.status = "ok") =>
        /\ last.mutation.field_name \in DOMAIN FieldsBefore
        /\ last.mutation.field_name \notin DOMAIN FieldsAfter
        /\ OtherFieldsKept({last.mutation.field_name})
        /\ Len(ModelAfter.meta.unique_together) = Len(ModelBefore.meta.unique_together)
        /\ \A i \in 1..Len(ModelBefore.meta.unique_together) :
              ModelAfter.meta.unique_together[i]
                  = SelectSeq(ModelBefore.meta.unique_together[i],
                              LAMBDA f : f # last.mutation.field_name)
        /\ DOMAIN ModelAfter.meta = DOMAIN ModelBefore.meta
        /\ OtherModelsKept

\* age is deleted from a model with the tuples (name, age) and (age), which
\* become (name) and ()
C31_Witness ==
    /\ LastOnModel("DeleteField")
    /\ last.status = "ok"
    /\ last.mutation.field_name = "age"
    /\ ModelBefore.meta.unique_together = << <<"name", "age">>, <<"age">> >>
    /\ ModelAfter.meta.unique_together = << <<"name">>, <<>> >>
    /\ DOMAIN FieldsAfter = {"id", "name", "ref"}

\* the last call changed a field of the model that is no many-to-many field
LastChangesPlainField ==
    /\ LastOnModel("ChangeField")
    /\ last.mutation.field_name \in DOMAIN FieldsBefore
    /\ FieldsBefore[last.mutation.field_name]["field_type"] # ManyToManyField

\* the changed attributes set null to false and no initial value is given
NullFalseWithoutInitial ==
    /\ "null" \in DOMAIN last.mutation.field_attrs
    /\ last.mutation.field_attrs["null"] = "False"
    /\ last.mutation.initial = "None"

\* C32: ChangeField.simulate on an existing field that is no many-to-many
\* field fails with SimulationFailure exactly when the changed attributes set
\* null to false and no initial value is given; otherwise it sets each changed
\* attribute of the field to its new value and leaves the other attributes of
\* the field, the other fields and the other models unchanged.
C32_ChangeFieldEffect ==
    LastChangesPlainField =>
        /\ last.status = "SimulationFailure" <=> NullFalseWithoutInitial
        /\ ~NullFalseWithoutInitial =>
              /\ last.status = "ok"
              /\ last.mutation.field_name \in DOMAIN FieldsAfter
              /\ \A a \in DOMAIN last.mutation.field_attrs :
                    /\ a \in DOMAIN FieldsAfter[last.mutation.field_name]
                    /\ FieldsAfter[last.mutation.field_name][a]
                           = last.mutation.field_attrs[a]
              /\ \A a \in DOMAIN FieldsAfter[last.mutation.field_name]
                          \ DOMAIN last.mutation.field_attrs :
                    /\ a \in DOMAIN FieldsBefore[last.mutation.field_name]
                    /\ FieldsAfter[last.mutation.field_name][a]
                           = FieldsBefore[last.mutation.field_name][a]
              /\ DOMAIN FieldsBefore[last.mutation.field_name]
                     \subseteq DOMAIN FieldsAfter[last.mutation.field_name]
              /\ OtherFieldsKept({last.mutation.field_name})
              /\ ModelAfter.meta = ModelBefore.meta
              /\ OtherModelsKept

\* age is made a column of width 30 that is not null, with an initial value
C32_Witness ==
    /\ LastChangesPlainField
    /\ last.status = "ok"
    /\ last.mutation.field_name = "age"
    /\ last.mutation.initial = "1"
    /\ FieldsBefore["age"] = IntegerSig
    /\ FieldsAfter["age"]
           = [field_type |-> "IntegerField", max_length |-> "30", null |-> "False"]

\* the signature the renamed field is to have: the old one with its table
\* override (many-to-many) or column override (other kinds) set to the value
\* given, or cleared when none is given
ExpectedRenamed ==
    LET old_sig == FieldsBefore[last.mutation.old_field_name]
        key == IF old_sig["field_type"] = ManyToManyField THEN "db_table"
               ELSE "db_column"
        given == last.mutation[key]
    IN  IF given \in {"None", ""}
        THEN [a \in DOMAIN old_sig \ {key} |-> old_sig[a]]
        ELSE [a \in DOMAIN old_sig \cup {key} |-> IF a = key THEN given ELSE old_sig[a]]

\* C33: a successful RenameField.simulate moves the field signature from the
\* old name to the new name: the old name is absent, the new name maps to the
\* old signature with its override set or cleared, every other field of the
\* model is unchanged, and the number of fields is the same.
C33_RenameFieldEffect ==
    (LastOnModel("RenameField") /\ last.status = "ok"
        /\ last.mutation.old_field_name # last.mutation.new_field_name) =>
        /\ last.mutation.old_field_name \notin DOMAIN FieldsAfter
        /\ last.mutation.new_field_name \in DOMAIN FieldsAfter
        /\ FieldsAfter[last.mutation.new_field_name] = ExpectedRenamed
        /\ \A f \in DOMAIN FieldsBefore \ {last.mutation.old_field_name} :
              f \in DOMAIN FieldsAfter /\ FieldsAfter[f] = FieldsBefore[f]
        /\ Cardinality(DOMAIN FieldsAfter) = Cardinality(DOMAIN FieldsBefore)

\* C35: a simulate step that fails with SimulationFailure leaves the
\* signature exactly as it was before the call, for every variant.
C35_FailureLeavesSignature ==
    (last.status = "SimulationFailure") => database_sig = last.before

\* every name in a unique_together tuple of a model is a field of the model
Consistent(proj_sig) ==
    \A a \in DOMAIN proj_sig : \A mn \in DOMAIN proj_sig[a] :
        \A i \in 1..Len(proj_sig[a][mn].meta.unique_together) :
            \A k \in 1..Len(proj_sig[a][mn].meta.unique_together[i]) :
                proj_sig[a][mn].meta.unique_together[i][k] \in DOMAIN proj_sig[a][mn].fields

\* C36: in every signature reached from a consistent one by successful
\* AddField, DeleteField, RenameField and ChangeField simulate steps, every
\* name in a unique_together tuple of a model is a field of that model.
C36_UniqueTogetherNamesFields ==
    /\ last.status = "none" => Consistent(database_sig)
    /\ (/\ last.status = "ok"
        /\ last.mutation.variant \in {"AddField", "DeleteField", "RenameField",
                                      "ChangeField"}
        /\ Consistent(last.before))
       => Consistent(database_sig)

-----------------------------------------------------------------------------
\* The statements of DeleteModel.mutate (specification SpecMut)

\* the many-to-many fields of the model the last call named
ManyToManyFields ==
    {f \in DOMAIN FieldsBefore : FieldsBefore[f]["field_type"] = ManyToManyField}

\* C34: DeleteModel.mutate returns the drops of the many-to-many tables of
\* the model first, one for each of its many-to-many fields, and the drop of
\* the model's own table last; a model without many-to-many fields yields
\* only the drop of its own table.
C34_DeleteModelStatements ==
    (LastOnModel("DeleteModel") /\ last.status = "ok") =>
        /\ Len(last.sql) = Cardinality(ManyToManyFields) + 1
        /\ last.sql[Len(last.sql)] = <<"delete_table", last.mutation.model_name>>
        /\ {last.sql[i] : i \in 1..(Len(last.sql) - 1)}
               = {<<"delete_table">> \o M2MTable(last.mutation.model_name, f,
                                                 FieldsBefore[f]) :
                     f \in ManyToManyFields}
        /\ ManyToManyFields = {} =>
               last.sql = << <<"delete_table", last.mutation.model_name>> >>

\* TestModel with the many-to-many field ref is deleted: two statements, the
\* drop of the table of ref and then the drop of the table of TestModel
C34_Witness ==
    /\ LastOnModel("DeleteModel")
    /\ last.status = "ok"
    /\ last.mutation.model_name = "TestModel"
    /\ ManyToManyFields = {"ref"}
    /\ Len(last.sql) = 2
    /\ last.sql[1] # last.sql[2]
    /\ last.sql[2] = <<"delete_table", "TestModel">>

-----------------------------------------------------------------------------
\* The report of the compiled statements (specification Spec)

\* the statements mutate returns for the mutations of the first k
\* applications of the run
StatementsUpTo(k) ==
    StatementsOf(Concat([i \in 1..k |->
                     [j \in 1..Len(PendingMutations(app_list[i])) |->
                         [app_label |-> app_list[i],
                          mutation  |-> PendingMutations(app_list[i])[j]]]]),
                 Unpickle(Baseline.versions[1].signature))

\* the statements of the mutations of the k-th application of the run
OwnStatements(k) ==
    SubSeq(StatementsUpTo(k), Len(StatementsUpTo(k - 1)) + 1, Len(StatementsUpTo(k)))

\* C37: in a run that does not execute and prints the compiled statements,
\* the statements reported under the heading of an application are exactly
\* the statements of that application's own mutations, each reported once in
\* the whole run.
C37_ReportsOwnStatements ==
    \A i \in 1..Len(output) :
        output[i].kind = "sql" =>
            \A k \in 1..Len(app_list) :
                app_list[k] = output[i].app_label =>
                    output[i].statements = OwnStatements(k)

-----------------------------------------------------------------------------
\* The verification of a run over some applications (specification Spec)

\* the run was given application labels, every mutate and simulate call of
\* it ended well, and the applications it was given have the signature of
\* the models in code
TargetedApplicationsEvolved ==
    /\ app_labels # <<>>
    /\ pc = "done"
    /\ \A i \in 1..Len(calls) : calls[i].status = "ok"
    /\ \A k \in 1..Len(app_labels) :
          /\ app_labels[k] \in DOMAIN database_sig
          /\ app_labels[k] \in DOMAIN current_proj_sig
          /\ database_sig[app_labels[k]] = current_proj_sig[app_labels[k]]

\* C38: the verification of a run over some applications depends on these
\* applications only: when their mutations simulate and their simulated
\* signatures equal the ones of the models in code, the run does not abort
\* with a verification failure, whatever differences the other applications
\* have.
C38_VerificationOfTargetedOnly ==
    TargetedApplicationsEvolved =>
        /\ \A i \in 1..Len(output) : output[i].kind # "Signatures do not match"
        /\ exit_status = "0"

=============================================================================
